---- MODULE Spec2Model ----
(***************************************************************************)
(* FreshBot (src/app.py): the per-speaker buffering, flush scheduling and  *)
(* stop sequence of a recording session.                                   *)
(*                                                                         *)
(* Threads and tasks.  write() runs on the voice transport's thread and    *)
(* may interleave with anything.  _worker, _cmd_stop (with flush_all) are  *)
(* coroutines of one asyncio event loop: a coroutine runs from one await   *)
(* to the next without any other coroutine running in between.  `loop`     *)
(* names the coroutine that is running between two awaits (NoTask when     *)
(* the loop is free); the producer's steps ignore it.                      *)
(*                                                                         *)
(* Time.  Durations are in tenths of a second.  time.time() stamps are     *)
(* kept as ages (time elapsed since the stamp), saturated at the idle      *)
(* timeout, the only threshold they are compared with.  Computation takes  *)
(* no time: time passes (Elapse) only while every task waits on a timer,   *)
(* a recognition call or the network.  In Spec a timer that is over may be *)
(* noticed late (time is observed in steps of the idle timeout); SpecTick  *)
(* runs the producer and the scheduler on exact time.                      *)
(*                                                                         *)
(* Specifications.  Spec: one Recording session with producer, scheduler   *)
(* and /stop.  SpecTick: the same without /stop, on exact time.            *)
(* SpecWrite: write() frame by frame, with the frames as bytes.            *)
(* SpecRecord: /record and /stop from an idle guild, with the voice        *)
(* connection coming and going.  SpecRerecord: /record on a Recording      *)
(* session.  SpecLive, SpecLiveEngine: a session under the fairness of     *)
(* the event loop, without and with a recognition engine that returns.     *)
(* SpecAgain: a Recording session, its /stop and a /record after it.       *)
(* SpecIdle, SpecSteady: one speaker who speaks for a second and is        *)
(* silent, and one who speaks without a pause, on exact time.              *)
(* SpecConvert: the conversions of write() on stereo pairs and ramps.      *)
(***************************************************************************)
EXTENDS Integers, Sequences, FiniteSets, TLC

\* ---------------------------------------------------------------- constants
SR_OUT == 16000
CHUNK_SECONDS == 5
MAX_BUFFER_SECONDS == 6
\* IDLE_FLUSH_SECONDS = 2.0, in tenths of a second
IDLE_FLUSH_TENTHS == 20
\* MIN_SECONDS_TO_POST = 1.6, in tenths of a second
MIN_POST_TENTHS == 16
\* asyncio.sleep(0.3) of the scheduler loop, in tenths of a second
SLEEP_TENTHS == 3
\* join_worker(timeout=12.0) of _cmd_stop, in tenths of a second
JOIN_TIMEOUT_TENTHS == 120

\* chunk = int(CHUNK_SECONDS * SR_OUT), cap = int(MAX_BUFFER_SECONDS * SR_OUT)
chunk == CHUNK_SECONDS * SR_OUT
cap == MAX_BUFFER_SECONDS * SR_OUT

\* ------------------------------------------------------------------- bounds
\* frames the producer gets past the accepting check in one run
MaxWrites == 3

\* sinks (sessions) that can exist in one run, speaker keys, and the lengths
\* (in 16 kHz samples) a converted frame may have
SinkIds == {1, 2}
Keys == {"u1", "u2"}
BlockLens == {8000, 72000}
Ctx == {"worker", "stop"}
\* the invocations of /record
RecIds == {1, 2}
NoTask == <<0, "none">>

VARIABLES
    SESSIONS,           \* SESSIONS[g.id] of the one guild: a sink id, 0 when absent
    open_files,         \* transcripts._open_files[g.id]: a path id, 0 when absent
    files,              \* path id -> the lines written to that file
    transcript_path,    \* sink -> its transcript_path
    running,            \* sink -> _running.is_set()
    stopped_accepting,  \* sink -> _stopped_accepting.is_set()
    worker_future,      \* sink -> "None" or "set" (_worker_future)
    keys,               \* sink -> list(_buffers.keys()), in insertion order
    buffers,            \* sink -> key -> the deque of blocks
    age,                \* sink -> key -> time.time() - _last_activity[key]
    idle_at_now,        \* sink -> the keys with (now - last) >= IDLE_FLUSH_SECONDS
                        \*         for the `now` of the scheduler's current pass
    wk,                 \* sink -> the _worker coroutine
    st,                 \* sink -> the _cmd_stop coroutine that popped the sink; with
                        \*         held: whether every speaker had a partial buffer when
                        \*         it began, upto: the blocks accepted before flush_all
    fl,                 \* sink -> ctx -> the flush awaiting recognition or send
    pr,                 \* sink -> the producer thread inside write()
    loop,               \* the coroutine running between two awaits
    posts,              \* the flushes whose text was passed to post_channel.send
    flushes,            \* every flush so far: who drained which blocks, and why
    accepted,           \* every block appended so far, in order: [sink, key, len]
    ev,                 \* what the step just taken was, when it was the return of a
                        \* recognition call (with append_line) or of a send
    over,               \* sink -> key -> for how long the buffer has been at or above
                        \*         the cap with the scheduler alive (all), and of that
                        \*         the time the scheduler was in its sleep (asleep)
    rc,                 \* invocation -> the _cmd_record coroutine
    connected           \* sink -> its vc.is_connected()

sinkVars == <<running, stopped_accepting, worker_future, keys, buffers, age, over>>
taskVars == <<wk, st, fl, pr, loop, idle_at_now>>
fileVars == <<SESSIONS, open_files, files, transcript_path>>
histVars == <<flushes, accepted, posts>>
recVars == <<rc, connected>>
vars == <<sinkVars, taskVars, fileVars, histVars, ev, over, recVars>>

\* ------------------------------------------------------------------ helpers
RECURSIVE SumLen(_)
SumLen(q) == IF q = <<>> THEN 0 ELSE Head(q).len + SumLen(Tail(q))

\* total = sum(len(x) for x in dq) if dq else 0
Total(dq) == SumLen(dq)

\* a drain loop that goes on while have <= chunk
RECURSIVE PopCountInclusive(_, _)
PopCountInclusive(dq, have) ==
    IF dq /= <<>> /\ have <= chunk
    THEN 1 + PopCountInclusive(Tail(dq), have + Head(dq).len)
    ELSE 0

\* the number of blocks `while dq and have < chunk: part = dq.popleft() ...` pops
RECURSIVE PopCount(_, _)
PopCount(dq, have) ==
    IF dq /= <<>> /\ have < chunk
    THEN 1 + PopCount(Tail(dq), have + Head(dq).len)
    ELSE 0

\* a chunk drain that pops one block more from the queue than it hands on
ChunkRestDropsOne(dq) == SubSeq(dq, PopCount(dq, 0) + 2, Len(dq))

\* the blocks popped by the chunk drain, and what stays queued
ChunkSamples(dq) == SubSeq(dq, 1, PopCount(dq, 0))
ChunkRest(dq) == SubSeq(dq, PopCount(dq, 0) + 1, Len(dq))

\* a drain that hands the blocks over last first
RECURSIVE PopAllReversed(_)
PopAllReversed(dq) == IF dq = <<>> THEN <<>> ELSE Append(PopAllReversed(Tail(dq)), Head(dq))

\* _pop_all: everything, in order
PopAll(dq) == dq

\* sec = mono16.size / SR_OUT; sec >= MIN_SECONDS_TO_POST
LongEnoughToPost(size) == size * 10 >= MIN_POST_TENTHS * SR_OUT

Min(a, b) == IF a < b THEN a ELSE b

Header == [kind |-> "header", flush |-> 0]
Footer == [kind |-> "end", flush |-> 0]
Line(fid) == [kind |-> "line", flush |-> fid]

IdleWk == [pc |-> "none", keys |-> <<>>, key |-> "u1", reason |-> "none", sleep_left |-> 0]
IdleSt == [pc |-> "none", keys |-> <<>>, join_left |-> 0, held |-> FALSE, upto |-> 0]
IdleFl == [pc |-> "idle", fid |-> 0]
\* write: its position, the speaker, and its locals: data.pcm (data), the
\* decoded and downmixed samples (arr), the resampled block (pcm) and its
\* length
IdlePr == [pc |-> "idle", key |-> "u1", len |-> 0, pcm |-> <<>>, data |-> <<>>,
           arr |-> <<>>]
NoEv == [fid |-> 0, what |-> "none"]
NoOver == [all |-> 0, asleep |-> 0]
IdleRc == [pc |-> "none", sink |-> 0, reply |-> "none"]

\* --------------------------------------------------------------------- Init
\* The state _cmd_record leaves: one session registered for the guild, its
\* transcript started (header written), its sink constructed (lines 176-192)
\* and start_worker called; sink 2 does not exist.
Init ==
    /\ SESSIONS = 1
    /\ open_files = 1
    /\ files = [p \in SinkIds |-> IF p = 1 THEN <<Header>> ELSE <<>>]
    /\ transcript_path = [s \in SinkIds |-> IF s = 1 THEN 1 ELSE 0]
    /\ running = [s \in SinkIds |-> s = 1]
    /\ stopped_accepting = [s \in SinkIds |-> FALSE]
    /\ worker_future = [s \in SinkIds |-> IF s = 1 THEN "set" ELSE "None"]
    /\ keys = [s \in SinkIds |-> <<>>]
    /\ buffers = [s \in SinkIds |-> [k \in Keys |-> <<>>]]
    /\ age = [s \in SinkIds |-> [k \in Keys |-> 0]]
    /\ idle_at_now = [s \in SinkIds |-> {}]
    /\ wk = [s \in SinkIds |-> IF s = 1 THEN [IdleWk EXCEPT !.pc = "check"] ELSE IdleWk]
    /\ st = [s \in SinkIds |-> IdleSt]
    /\ fl = [s \in SinkIds |-> [c \in Ctx |-> IdleFl]]
    /\ pr = [s \in SinkIds |-> IdlePr]
    /\ loop = NoTask
    /\ posts = <<>>
    /\ flushes = <<>>
    /\ accepted = <<>>
    /\ ev = NoEv
    /\ over = [s \in SinkIds |-> [k \in Keys |-> NoOver]]
    /\ rc = [i \in RecIds |-> IdleRc]
    /\ connected = [s \in SinkIds |-> s = 1]

\* a sink that has been constructed
Exists(s) == transcript_path[s] /= 0

\* the time over the cap starts again for a buffer that went below the cap
OverAfter(b) ==
    [s \in SinkIds |-> [k \in Keys |->
        IF Total(b[s][k]) >= cap THEN over[s][k] ELSE NoOver]]

\* ------------------------------------------------------ TranscribeSink.write
\* The speakers a sink may hear next: those it has heard, and the first of
\* the others (speakers are interchangeable; they join in the order of Keys).
KeyOrder == <<"u1", "u2">>
FirstKeys(s) ==
    {KeyOrder[i] : i \in {j \in 1..Len(KeyOrder) :
        \A h \in 1..(j - 1) : \E x \in 1..Len(keys[s]) : keys[s][x] = KeyOrder[h]}}

\* Lines 199-213: the accepting check, decoding and conversion of one frame,
\* for a frame that passes the check.  key is the speaker, n the length of
\* arr16 (its samples are not represented: pcm is empty).  The lock is not
\* held yet.
WriteCheck(s, key, n) ==
    /\ Exists(s)
    /\ pr[s].pc = "idle"
    /\ Len(accepted) + Cardinality({x \in SinkIds : pr[x].pc = "checked"}) < MaxWrites
    /\ ~stopped_accepting[s]
    /\ key \in FirstKeys(s)
    /\ pr' = [pr EXCEPT ![s] = [IdlePr EXCEPT !.pc = "checked", !.key = key, !.len = n]]
    /\ UNCHANGED <<recVars, sinkVars, wk, st, fl, loop, idle_at_now, fileVars, histVars>>
    /\ ev' = NoEv

\* Lines 199-200: _stopped_accepting is set, write returns at once.
WriteDropped(s) ==
    /\ Exists(s)
    /\ pr[s].pc = "idle"
    /\ stopped_accepting[s]
    /\ UNCHANGED vars

\* ------------------------------------------------- write(), sample by sample
\* np.frombuffer(pcm, dtype=np.int16): little-endian two's complement, two
\* bytes a sample; a byte length that is not a multiple of 2 is a ValueError.
Int16(lo, hi) == LET u == lo + 256 * hi IN IF u >= 32768 THEN u - 65536 ELSE u
Decodable(pcm) == Len(pcm) % 2 = 0
PcmBytesToInt16Array(pcm) ==
    [i \in 1..(Len(pcm) \div 2) |-> Int16(pcm[2 * i - 1], pcm[2 * i])]

\* astype(np.int16): the value modulo 2^16.  astype(np.int32) of an int16
\* value is the value, and the sum of two of them, at most 2^16 in
\* magnitude, is exact in int32.
ToInt16(x) == ((x + 32768) % 65536) - 32768
INT32_MAX == 2147483647
InInt32(x) == x >= -INT32_MAX - 1 /\ x <= INT32_MAX

\* a downmix that adds the two channels in int16
DownmixNarrow(arr) ==
    [i \in 1..(Len(arr) \div 2) |-> ToInt16(ToInt16(arr[2 * i - 1] + arr[2 * i]) \div 2)]

\* a downmix that rounds the mean toward zero
DownmixTruncating(arr) ==
    [i \in 1..(Len(arr) \div 2) |->
        LET sum == arr[2 * i - 1] + arr[2 * i]
        IN  ToInt16(IF sum >= 0 THEN sum \div 2 ELSE -((-sum) \div 2))]

\* arr.reshape(-1, 2) and (x.astype(int32).sum(axis=1) // 2).astype(int16):
\* each pair is added in int32, // is the floor division
DownmixStereoToMono(arr) ==
    [i \in 1..(Len(arr) \div 2) |-> ToInt16((arr[2 * i - 1] + arr[2 * i]) \div 2)]

\* lines 205-209: an even number of samples is taken as interleaved stereo;
\* an odd number stays a 1-D array, which the downmix returns as it is
Mono(arr) == IF Len(arr) % 2 = 0 THEN DownmixStereoToMono(arr) ELSE arr

\* a resampling that takes whole groups of three only
ResampleWholeGroups(mono) == [i \in 1..(Len(mono) \div 3) |-> mono[3 * i - 2]]

\* mono_48k[::3]: the samples at offsets 0, 3, 6, ...
Resample48kTo16k(mono) == [i \in 1..((Len(mono) + 2) \div 3) |-> mono[3 * i - 2]]

\* the frames of the producer: no bytes, three bytes, one stereo pair
\* (-3, 2), three samples, four stereo pairs
Frames ==
    { <<>>,
      <<1, 0, 2>>,
      <<253, 255, 2, 0>>,
      <<5, 0, 255, 255, 7, 0>>,
      <<1, 0, 3, 0, 254, 255, 255, 255, 4, 0, 4, 0, 0, 128, 255, 127>> }

\* write() whose decoding error leaves the method
WriteFrameRaises(s, key, pcm) ==
    /\ Exists(s)
    /\ pr[s].pc = "idle"
    /\ Len(accepted) + Cardinality({x \in SinkIds : pr[x].pc = "checked"}) < MaxWrites
    /\ key \in FirstKeys(s)
    /\ IF stopped_accepting[s] \/ pcm = <<>>
       THEN /\ ev' = [fid |-> 0, what |-> "write_returned"]
            /\ pr' = pr
       ELSE IF ~Decodable(pcm)
       THEN /\ ev' = [fid |-> 0, what |-> "write_error"]
            /\ pr' = [pr EXCEPT ![s].pc = "raised"]
       ELSE /\ ev' = NoEv
            /\ pr' = [pr EXCEPT ![s] =
                         LET arr == Mono(PcmBytesToInt16Array(pcm))
                             arr16 == Resample48kTo16k(arr)
                         IN  [pc |-> "checked", key |-> key, len |-> Len(arr16),
                              pcm |-> arr16, data |-> pcm, arr |-> arr]]
    /\ UNCHANGED <<recVars, sinkVars, wk, st, fl, loop, idle_at_now, fileVars, histVars>>

\* Lines 197-213 and 220-221 for a frame of bytes pcm from the speaker key:
\* the method returns at once when the sink has stopped accepting or the
\* frame is empty; an exception of the decoding is caught and logged and the
\* method returns; otherwise arr16 is ready and the lock is not held yet.
WriteFrame(s, key, pcm) ==
    /\ Exists(s)
    /\ pr[s].pc = "idle"
    /\ Len(accepted) + Cardinality({x \in SinkIds : pr[x].pc = "checked"}) < MaxWrites
    /\ key \in FirstKeys(s)
    /\ IF stopped_accepting[s] \/ pcm = <<>>
       THEN /\ ev' = [fid |-> 0, what |-> "write_returned"]
            /\ pr' = pr
       ELSE IF ~Decodable(pcm)
       THEN /\ ev' = [fid |-> 0, what |-> "write_error"]
            /\ pr' = pr
       ELSE /\ ev' = NoEv
            /\ pr' = [pr EXCEPT ![s] =
                         LET arr == Mono(PcmBytesToInt16Array(pcm))
                             arr16 == Resample48kTo16k(arr)
                         IN  [pc |-> "checked", key |-> key, len |-> Len(arr16),
                              pcm |-> arr16, data |-> pcm, arr |-> arr]]
    /\ UNCHANGED <<recVars, sinkVars, wk, st, fl, loop, idle_at_now, fileVars, histVars>>

\* self._lock (a threading.Lock).  The coroutines take it in `with` blocks
\* that contain no await: lines 254-259 (_flush_speaker's drain), 286-287
\* and 336-337 (the key snapshots), 291-295 (the totals), 304-310 (the
\* chunk drain); each block lies inside one step of the scheduler or of
\* flush_all, so at the positions between steps (the sleep of line 285,
\* the recognition calls of lines 266 and 319, append_line and the send of
\* lines 273-279 and 326-332) the lock is free.
\* (LockedAcrossRecognition: a flush that keeps the lock while it awaits.)
LockedAcrossRecognition(s) == \E c \in Ctx : fl[s][c].pc = "transcribing"
Locked(s) == FALSE

\* Lines 214-219: under the lock, create the speaker's deque on its first
\* frame, append the block and stamp _last_activity with time.time().
WriteCommit(s) ==
    /\ pr[s].pc = "checked"
    /\ ~Locked(s)
    /\ LET key == pr[s].key
           blk == [id |-> Len(accepted) + 1, len |-> pr[s].len, pcm |-> pr[s].pcm]
       IN  /\ keys' = [keys EXCEPT ![s] =
                          IF \E i \in 1..Len(@) : @[i] = key THEN @ ELSE Append(@, key)]
           /\ buffers' = [buffers EXCEPT ![s][key] = Append(@, blk)]
           /\ age' = [age EXCEPT ![s][key] = 0]
           /\ idle_at_now' = [idle_at_now EXCEPT ![s] = @ \ {key}]
           /\ accepted' = Append(accepted, [sink |-> s, key |-> key, len |-> pr[s].len])
    /\ over' = OverAfter(buffers')
    /\ pr' = [pr EXCEPT ![s] = IdlePr]
    /\ UNCHANGED <<recVars, running, stopped_accepting, worker_future, wk, st, fl, loop,
                   fileVars, flushes, posts>>
    /\ ev' = NoEv

\* ---------------------------------------------------- TranscribeSink.cleanup
\* Called by the voice transport when it lets go of the sink.
Cleanup(s) ==
    /\ Exists(s)
    /\ running[s] \/ ~stopped_accepting[s]
    /\ running' = [running EXCEPT ![s] = FALSE]
    /\ stopped_accepting' = [stopped_accepting EXCEPT ![s] = TRUE]
    /\ UNCHANGED <<recVars, worker_future, keys, buffers, age, over, taskVars, fileVars, histVars>>
    /\ ev' = NoEv

\* ------------------------------------------------------------- flush helpers
\* What a flush drained and what became of it.
NewFlush(s, c, key, reason, clip) ==
    [sink |-> s, ctx |-> c, key |-> key, reason |-> reason, clip |-> clip]

\* The drained blocks are concatenated and handed to run_in_executor
\* (_do_transcribe); the coroutine awaits the result.
Submit(s, c, key, reason, clip) ==
    /\ flushes' = Append(flushes, NewFlush(s, c, key, reason, clip))
    /\ fl' = [fl EXCEPT ![s][c] = [pc |-> "transcribing", fid |-> Len(flushes) + 1]]
    /\ loop' = NoTask

\* TranscriptLogger.append_line (lines 92-105) with fallback_path, which exists.
AppendPath(fallback) == IF open_files /= 0 THEN open_files ELSE fallback

\* The coroutine of context c goes on after its flush returned ("return") or
\* let an exception out ("raise"): the scheduler takes its next key, or dies;
\* flush_all takes its next key, or is left by contextlib.suppress.
\* (ResumeWkSkipsRest: a scheduler that gives up the rest of its pass.)
ResumeWkSkipsRest(s, c, how) ==
    IF c = "worker"
    THEN [wk EXCEPT ![s] = IF how = "raise"
                           THEN [IdleWk EXCEPT !.pc = "failed"]
                           ELSE [IdleWk EXCEPT !.pc = "iter"]]
    ELSE wk
ResumeWk(s, c, how) ==
    IF c = "worker"
    THEN [wk EXCEPT ![s] = IF how = "raise"
                           THEN [IdleWk EXCEPT !.pc = "failed"]
                           ELSE [IdleWk EXCEPT !.pc = "iter", !.keys = wk[s].keys]]
    ELSE wk
ResumeSt(s, c, how) ==
    IF c = "stop"
    THEN [st EXCEPT ![s].pc = "flush_all", ![s].keys = IF how = "raise" THEN <<>> ELSE @]
    ELSE st
ResumeLoop(s, c, how) == IF c = "worker" /\ how = "raise" THEN NoTask ELSE <<s, c>>

\* Lines 266-275 and 319-328: the recognition call returns. res is what it
\* gave: "error" (it raised), "empty" (no text) or "text"; ok is whether
\* append_line's file write succeeds (the fallback path is put in the
\* open-file map at line 94, before the file is opened).
TranscribeReturn(s, c, res, ok) ==
    /\ loop = NoTask
    /\ fl[s][c].pc = "transcribing"
    /\ LET fid == fl[s][c].fid
           size == SumLen(flushes[fid].clip)
       IN  IF res /= "text"
           THEN /\ ev' = [fid |-> fid, what |-> res]
                /\ fl' = [fl EXCEPT ![s][c] = IdleFl]
                /\ wk' = ResumeWk(s, c, "return")
                /\ st' = ResumeSt(s, c, "return")
                /\ loop' = ResumeLoop(s, c, "return")
                /\ UNCHANGED <<open_files, files, posts>>
           ELSE IF ~ok
           THEN /\ ev' = [fid |-> fid, what |-> "append_failed"]
                /\ fl' = [fl EXCEPT ![s][c] = IdleFl]
                /\ wk' = ResumeWk(s, c, "raise")
                /\ st' = ResumeSt(s, c, "raise")
                /\ loop' = ResumeLoop(s, c, "raise")
                /\ open_files' = AppendPath(transcript_path[s])
                /\ UNCHANGED <<files, posts>>
           ELSE /\ ev' = [fid |-> fid, what |-> "logged"]
                /\ open_files' = AppendPath(transcript_path[s])
                /\ files' = [files EXCEPT ![AppendPath(transcript_path[s])] =
                                Append(@, Line(fid))]
                /\ IF LongEnoughToPost(size)
                   THEN /\ posts' = Append(posts, fid)
                        /\ fl' = [fl EXCEPT ![s][c].pc = "posting"]
                        /\ loop' = NoTask
                        /\ UNCHANGED <<wk, st>>
                   ELSE /\ fl' = [fl EXCEPT ![s][c] = IdleFl]
                        /\ wk' = ResumeWk(s, c, "return")
                        /\ st' = ResumeSt(s, c, "return")
                        /\ loop' = ResumeLoop(s, c, "return")
                        /\ UNCHANGED posts
    /\ UNCHANGED <<recVars, sinkVars, pr, idle_at_now, SESSIONS, transcript_path, accepted,
                   flushes>>

\* a send whose exception is let out of the flush
PostReturnRaises(s, c, ok) ==
    /\ loop = NoTask
    /\ fl[s][c].pc = "posting"
    /\ ev' = [fid |-> fl[s][c].fid, what |-> IF ok THEN "sent" ELSE "send_failed"]
    /\ fl' = [fl EXCEPT ![s][c] = IdleFl]
    /\ wk' = ResumeWk(s, c, IF ok THEN "return" ELSE "raise")
    /\ st' = ResumeSt(s, c, IF ok THEN "return" ELSE "raise")
    /\ loop' = ResumeLoop(s, c, IF ok THEN "return" ELSE "raise")
    /\ UNCHANGED <<recVars, sinkVars, pr, idle_at_now, fileVars, accepted, flushes, posts>>

\* Lines 276-279 and 329-332: post_channel.send returns, or raises and is
\* caught and logged.
PostReturn(s, c, ok) ==
    /\ loop = NoTask
    /\ fl[s][c].pc = "posting"
    /\ ev' = [fid |-> fl[s][c].fid, what |-> IF ok THEN "sent" ELSE "send_failed"]
    /\ fl' = [fl EXCEPT ![s][c] = IdleFl]
    /\ wk' = ResumeWk(s, c, "return")
    /\ st' = ResumeSt(s, c, "return")
    /\ loop' = ResumeLoop(s, c, "return")
    /\ UNCHANGED <<recVars, sinkVars, pr, idle_at_now, fileVars, accepted, flushes, posts>>

\* --------------------------------------------------- TranscribeSink._worker
\* a scheduler whose sleep lasts two tick intervals
WorkerLoopSleepsTwice(s) ==
    /\ wk[s].pc = "check"
    /\ loop \in {NoTask, <<s, "worker">>}
    /\ wk' = [wk EXCEPT ![s] =
                 IF running[s]
                 THEN [IdleWk EXCEPT !.pc = "sleep", !.sleep_left = 2 * SLEEP_TENTHS]
                 ELSE [IdleWk EXCEPT !.pc = "done"]]
    /\ loop' = NoTask
    /\ UNCHANGED <<recVars, sinkVars, st, fl, pr, idle_at_now, fileVars, histVars>>
    /\ ev' = NoEv

\* Line 284: while self._running.is_set(); line 285: await asyncio.sleep(0.3).
\* a scheduler that goes to sleep without testing _running
WorkerLoopIgnoresFlag(s) ==
    /\ wk[s].pc = "check"
    /\ loop \in {NoTask, <<s, "worker">>}
    /\ wk' = [wk EXCEPT ![s] = [IdleWk EXCEPT !.pc = "sleep", !.sleep_left = SLEEP_TENTHS]]
    /\ loop' = NoTask
    /\ UNCHANGED <<recVars, sinkVars, st, fl, pr, idle_at_now, fileVars, histVars>>
    /\ ev' = NoEv

WorkerLoop(s) ==
    /\ wk[s].pc = "check"
    /\ loop \in {NoTask, <<s, "worker">>}
    /\ wk' = [wk EXCEPT ![s] =
                 IF running[s]
                 THEN [IdleWk EXCEPT !.pc = "sleep", !.sleep_left = SLEEP_TENTHS]
                 ELSE [IdleWk EXCEPT !.pc = "done"]]
    /\ loop' = NoTask
    /\ UNCHANGED <<recVars, sinkVars, st, fl, pr, idle_at_now, fileVars, histVars>>
    /\ ev' = NoEv

\* Lines 286-288: the sleep is over; snapshot the keys under the lock and
\* read now = time.time().
WorkerWake(s) ==
    /\ wk[s].pc = "sleep"
    /\ wk[s].sleep_left = 0
    /\ loop = NoTask
    /\ wk' = [wk EXCEPT ![s].pc = "iter", ![s].keys = keys[s]]
    /\ idle_at_now' = [idle_at_now EXCEPT ![s] =
                          {k \in Keys : age[s][k] >= IDLE_FLUSH_TENTHS}]
    /\ loop' = <<s, "worker">>
    /\ UNCHANGED <<recVars, sinkVars, st, fl, pr, fileVars, histVars>>
    /\ ev' = NoEv

\* a scheduler that tests the chunk threshold before the cap
DecideChunkFirst(total, idle) ==
    IF total = 0 THEN "skip"
    ELSE IF idle THEN "idle"
    ELSE IF total >= chunk THEN "chunk"
    ELSE IF total >= cap THEN "cap"
    ELSE "skip"

\* a scheduler without the chunk threshold
DecideNoChunk(total, idle) ==
    IF total = 0 THEN "skip"
    ELSE IF idle \/ total >= cap THEN (IF idle THEN "idle" ELSE "cap")
    ELSE "skip"

\* a scheduler that takes every buffer that holds audio for idle
DecideIdleAtOnce(total, idle) == IF total = 0 THEN "skip" ELSE "idle"

\* Lines 295-303: what the scheduler does with a speaker whose deque holds
\* total samples and whose idle test gave idle.
Decide(total, idle) ==
    IF total = 0 THEN "skip"
    ELSE IF idle \/ total >= cap THEN (IF idle THEN "idle" ELSE "cap")
    ELSE IF total >= chunk THEN "chunk"
    ELSE "skip"

\* Lines 289-303: the next key of the pass; under the lock read its deque,
\* last activity and total, then decide.  With no key left the for loop ends.
WorkerEval(s) ==
    /\ wk[s].pc = "iter"
    /\ loop = <<s, "worker">>
    /\ IF wk[s].keys = <<>>
       THEN /\ wk' = [wk EXCEPT ![s] = [IdleWk EXCEPT !.pc = "check"]]
            /\ idle_at_now' = [idle_at_now EXCEPT ![s] = {}]
       ELSE LET key == Head(wk[s].keys)
                dq == buffers[s][key]
                total == Total(dq)
                idle == key \in idle_at_now[s]
                what == Decide(total, idle)
                next == [wk[s] EXCEPT !.keys = Tail(@)]
                call == [next EXCEPT !.key = key, !.reason = what]
            IN  /\ wk' = [wk EXCEPT ![s] =
                       IF what = "skip" THEN next
                       ELSE IF what = "chunk" THEN [call EXCEPT !.pc = "drain_chunk"]
                       ELSE [call EXCEPT !.pc = "flush_speaker"]]
                /\ UNCHANGED idle_at_now
    /\ UNCHANGED <<recVars, sinkVars, st, fl, pr, loop, fileVars, histVars>>
    /\ ev' = NoEv

\* Line 301 -> _flush_speaker, lines 254-266: under the lock pop everything;
\* an empty deque returns at once.
WorkerFlushSpeaker(s) ==
    /\ wk[s].pc = "flush_speaker"
    /\ loop = <<s, "worker">>
    /\ LET key == wk[s].key
           dq == buffers[s][key]
       IN  IF dq = <<>>
           THEN /\ wk' = ResumeWk(s, "worker", "return")
                /\ UNCHANGED <<buffers, fl, loop, flushes>>
           ELSE /\ buffers' = [buffers EXCEPT ![s][key] = <<>>]
                /\ wk' = [wk EXCEPT ![s].pc = "await"]
                /\ Submit(s, "worker", key, wk[s].reason, PopAll(dq))
    /\ over' = OverAfter(buffers')
    /\ UNCHANGED <<recVars, running, stopped_accepting, worker_future, keys, age, st, pr,
                   idle_at_now, fileVars, accepted, posts>>
    /\ ev' = NoEv

\* Lines 304-319: under the lock pop blocks until have >= chunk.
WorkerDrainChunk(s) ==
    /\ wk[s].pc = "drain_chunk"
    /\ loop = <<s, "worker">>
    /\ LET key == wk[s].key
           dq == buffers[s][key]
           samples == ChunkSamples(dq)
       IN  IF samples = <<>>
           THEN /\ wk' = ResumeWk(s, "worker", "return")
                /\ UNCHANGED <<buffers, fl, loop, flushes>>
           ELSE /\ buffers' = [buffers EXCEPT ![s][key] = ChunkRest(dq)]
                /\ wk' = [wk EXCEPT ![s].pc = "await"]
                /\ Submit(s, "worker", key, "chunk", samples)
    /\ over' = OverAfter(buffers')
    /\ UNCHANGED <<recVars, running, stopped_accepting, worker_future, keys, age, st, pr,
                   idle_at_now, fileVars, accepted, posts>>
    /\ ev' = NoEv

\* ------------------------------------------------------------------ _cmd_stop
\* the speakers holding a partial buffer: some audio, less than a chunk
Partial(s) == {k \in Keys : buffers[s][k] /= <<>> /\ Total(buffers[s][k]) < chunk}

\* Lines 468-472: pop the session from the registry; await the deferral.
StopBegin(s) ==
    /\ loop = NoTask
    /\ SESSIONS = s
    /\ st[s].pc = "none"
    /\ SESSIONS' = 0
    /\ st' = [st EXCEPT ![s].pc = "defer", ![s].held = (Partial(s) = Keys)]
    /\ UNCHANGED <<recVars, sinkVars, wk, fl, pr, loop, idle_at_now, open_files, files,
                   transcript_path, histVars>>
    /\ ev' = NoEv

\* Lines 473-478: stop_listening, stop_accepting (sets the latch; the await
\* does not suspend), then flush_all's snapshot of the keys (lines 336-337).
StopAccepting(s) ==
    /\ loop = NoTask
    /\ st[s].pc = "defer"
    /\ stopped_accepting' = [stopped_accepting EXCEPT ![s] = TRUE]
    /\ st' = [st EXCEPT ![s].pc = "flush_all", ![s].keys = keys[s],
                         ![s].upto = Len(accepted)]
    /\ loop' = <<s, "stop">>
    /\ UNCHANGED <<recVars, running, worker_future, keys, buffers, age, over, wk, fl, pr,
                   idle_at_now, fileVars, histVars>>
    /\ ev' = NoEv

\* Lines 338-339: flush_all's next key -> _flush_speaker(key, "final"),
\* lines 254-266.
FlushAllNext(s) ==
    /\ loop = <<s, "stop">>
    /\ st[s].pc = "flush_all"
    /\ st[s].keys /= <<>>
    /\ LET key == Head(st[s].keys)
           dq == buffers[s][key]
       IN  IF dq = <<>>
           THEN /\ st' = [st EXCEPT ![s].keys = Tail(@)]
                /\ UNCHANGED <<buffers, fl, loop, flushes>>
           ELSE /\ buffers' = [buffers EXCEPT ![s][key] = <<>>]
                /\ st' = [st EXCEPT ![s].keys = Tail(@), ![s].pc = "await"]
                /\ Submit(s, "stop", key, "final", PopAll(dq))
    /\ over' = OverAfter(buffers')
    /\ UNCHANGED <<recVars, running, stopped_accepting, worker_future, keys, age, wk, pr,
                   idle_at_now, fileVars, accepted, posts>>
    /\ ev' = NoEv

\* Lines 479-481: flush_all is over (or was left by an exception);
\* stop_worker clears _running; join_worker (lines 238-243) takes the future
\* and waits for it in a thread, for at most 12 s.
StopWorker(s) ==
    /\ loop = <<s, "stop">>
    /\ st[s].pc = "flush_all"
    /\ st[s].keys = <<>>
    /\ running' = [running EXCEPT ![s] = FALSE]
    /\ worker_future' = [worker_future EXCEPT ![s] = "None"]
    /\ st' = [st EXCEPT ![s] =
                 IF worker_future[s] = "None"
                 THEN [@ EXCEPT !.pc = "disconnect"]
                 ELSE [@ EXCEPT !.pc = "join", !.join_left = JOIN_TIMEOUT_TENTHS]]
    /\ loop' = NoTask
    /\ UNCHANGED <<recVars, stopped_accepting, keys, buffers, age, over, wk, fl, pr, idle_at_now,
                   fileVars, histVars>>
    /\ ev' = NoEv

\* the _worker coroutine has returned or died: its future is done
WorkerFinished(s) == wk[s].pc \in {"done", "failed"}

\* a join that returns without waiting
JoinReturnEarly(s) ==
    /\ loop = NoTask
    /\ st[s].pc = "join"
    /\ st' = [st EXCEPT ![s].pc = "disconnect", ![s].join_left = 0]
    /\ UNCHANGED <<recVars, sinkVars, wk, fl, pr, loop, idle_at_now, fileVars, histVars>>
    /\ ev' = NoEv

\* Lines 243-245 and 482-483: fut.result returns or raises (the worker is
\* done, or the timeout expired); await vc.disconnect.
JoinReturn(s) ==
    /\ loop = NoTask
    /\ st[s].pc = "join"
    /\ WorkerFinished(s) \/ st[s].join_left = 0
    /\ st' = [st EXCEPT ![s].pc = "disconnect", ![s].join_left = 0]
    /\ UNCHANGED <<recVars, sinkVars, wk, fl, pr, loop, idle_at_now, fileVars, histVars>>
    /\ ev' = NoEv

\* Line 484 -> TranscriptLogger.stop_session (lines 108-113): pop the open
\* file and write its end line.
StopSession(s) ==
    /\ loop = NoTask
    /\ st[s].pc = "disconnect"
    /\ st' = [st EXCEPT ![s].pc = "done"]
    /\ open_files' = 0
    /\ files' = IF open_files = 0 THEN files
                ELSE [files EXCEPT ![open_files] = Append(@, Footer)]
    /\ connected' = [connected EXCEPT ![s] = FALSE]
    /\ UNCHANGED <<rc, sinkVars, wk, fl, pr, loop, idle_at_now, SESSIONS,
                   transcript_path, histVars>>
    /\ ev' = NoEv

\* a /stop without a session that closes the guild's transcript all the same
StopNotRecordingClosesTranscript ==
    /\ loop = NoTask
    /\ SESSIONS = 0
    /\ files' = IF open_files = 0 THEN files
                ELSE [files EXCEPT ![open_files] = Append(@, Footer)]
    /\ open_files' = 0
    /\ ev' = [fid |-> 0, what |-> "not_recording"]
    /\ UNCHANGED <<recVars, sinkVars, taskVars, SESSIONS, transcript_path, histVars>>

\* Lines 468-471: SESSIONS.pop finds no session for the guild; the reply
\* "Not recording in this server." and return.
StopNotRecording ==
    /\ loop = NoTask
    /\ SESSIONS = 0
    /\ ev' = [fid |-> 0, what |-> "not_recording"]
    /\ UNCHANGED <<recVars, sinkVars, taskVars, fileVars, histVars>>

\* ----------------------------------------------------------------- _cmd_record
\* TranscriptLogger.stop_session (lines 108-113) on the files fs with the
\* open file of: the end line goes to the open file, if there is one.
StopSessionFiles(fs, of) == IF of = 0 THEN fs ELSE [fs EXCEPT ![of] = Append(@, Footer)]

\* The transcript paths not used yet, and the next of them.
FreePaths == {p \in SinkIds : files[p] = <<>>}
NextPath == CHOOSE p \in FreePaths : \A q \in FreePaths : p <= q

\* a record-start that starts the scheduler whatever its future is
RecordBeginStartsAlways(i) ==
    /\ loop = NoTask
    /\ rc[i].pc = "none"
    /\ IF SESSIONS /= 0 /\ connected[SESSIONS]
       THEN /\ worker_future' = [worker_future EXCEPT ![SESSIONS] = "set"]
            /\ wk' = [wk EXCEPT ![SESSIONS] = [IdleWk EXCEPT !.pc = "check"]]
            /\ rc' = [rc EXCEPT ![i] = [IdleRc EXCEPT !.pc = "done", !.reply = "already"]]
       ELSE /\ rc' = [rc EXCEPT ![i].pc = "defer"]
            /\ UNCHANGED <<worker_future, wk>>
    /\ UNCHANGED <<connected, running, stopped_accepting, keys, buffers, age, over,
                   st, fl, pr, loop, idle_at_now, fileVars, histVars>>
    /\ ev' = NoEv

\* Lines 433-442: with a session registered whose vc is connected,
\* start_worker (lines 227-229: only if _worker_future is None) and the
\* reply "Already recording"; otherwise await the deferral.
RecordBegin(i) ==
    /\ loop = NoTask
    /\ rc[i].pc = "none"
    /\ IF SESSIONS /= 0 /\ connected[SESSIONS]
       THEN /\ IF worker_future[SESSIONS] = "None"
               THEN /\ worker_future' = [worker_future EXCEPT ![SESSIONS] = "set"]
                    /\ wk' = [wk EXCEPT ![SESSIONS] = [IdleWk EXCEPT !.pc = "check"]]
               ELSE UNCHANGED <<worker_future, wk>>
            /\ rc' = [rc EXCEPT ![i] = [IdleRc EXCEPT !.pc = "done", !.reply = "already"]]
       ELSE /\ rc' = [rc EXCEPT ![i].pc = "defer"]
            /\ UNCHANGED <<worker_future, wk>>
    /\ UNCHANGED <<connected, running, stopped_accepting, keys, buffers, age, over,
                   st, fl, pr, loop, idle_at_now, fileVars, histVars>>
    /\ ev' = NoEv

\* Line 443 -> TranscriptLogger.start_session (lines 73-89): a new file with
\* its header becomes the guild's open file; await channel.connect.
RecordStartSession(i) ==
    /\ loop = NoTask
    /\ rc[i].pc = "defer"
    /\ FreePaths /= {}
    /\ files' = [files EXCEPT ![NextPath] = <<Header>>]
    /\ open_files' = NextPath
    /\ rc' = [rc EXCEPT ![i].pc = "connect", ![i].sink = NextPath]
    /\ UNCHANGED <<connected, sinkVars, taskVars, SESSIONS, transcript_path, histVars>>
    /\ ev' = NoEv

\* a record-start that registers the session before it starts listening
RecordConnectedRegistersFirst(i, ok, listens) ==
    /\ loop = NoTask
    /\ rc[i].pc = "connect"
    /\ LET s == rc[i].sink IN
       IF ~ok
       THEN /\ files' = StopSessionFiles(files, open_files)
            /\ open_files' = 0
            /\ rc' = [rc EXCEPT ![i].pc = "done", ![i].reply = "could_not_join"]
            /\ UNCHANGED <<connected, sinkVars, wk, SESSIONS, transcript_path>>
       ELSE /\ transcript_path' = [transcript_path EXCEPT ![s] = s]
            /\ running' = [running EXCEPT ![s] = TRUE]
            /\ connected' = [connected EXCEPT ![s] = TRUE]
            /\ SESSIONS' = s
            /\ IF listens
               THEN /\ worker_future' = [worker_future EXCEPT ![s] = "set"]
                    /\ wk' = [wk EXCEPT ![s] = [IdleWk EXCEPT !.pc = "check"]]
                    /\ rc' = [rc EXCEPT ![i].pc = "done", ![i].reply = "recording"]
               ELSE /\ rc' = [rc EXCEPT ![i].pc = "disconnect"]
                    /\ UNCHANGED <<worker_future, wk>>
            /\ UNCHANGED <<stopped_accepting, keys, buffers, age, over, open_files, files>>
    /\ UNCHANGED <<st, fl, pr, loop, idle_at_now, histVars>>
    /\ ev' = NoEv

\* Lines 444-461: channel.connect returns (ok) or raises.  When it raised:
\* stop_session and the reply "Could not join".  Otherwise the sink is
\* constructed (lines 176-192) and vc.listen(sink) is called; when it
\* returns (listens): start_worker, the session is registered, the reply
\* "Recording"; when it raises: await vc.disconnect.
RecordConnected(i, ok, listens) ==
    /\ loop = NoTask
    /\ rc[i].pc = "connect"
    /\ LET s == rc[i].sink IN
       IF ~ok
       THEN /\ files' = StopSessionFiles(files, open_files)
            /\ open_files' = 0
            /\ rc' = [rc EXCEPT ![i].pc = "done", ![i].reply = "could_not_join"]
            /\ UNCHANGED <<connected, sinkVars, wk, SESSIONS, transcript_path>>
       ELSE /\ transcript_path' = [transcript_path EXCEPT ![s] = s]
            /\ running' = [running EXCEPT ![s] = TRUE]
            /\ connected' = [connected EXCEPT ![s] = TRUE]
            /\ IF listens
               THEN /\ worker_future' = [worker_future EXCEPT ![s] = "set"]
                    /\ wk' = [wk EXCEPT ![s] = [IdleWk EXCEPT !.pc = "check"]]
                    /\ SESSIONS' = s
                    /\ rc' = [rc EXCEPT ![i].pc = "done", ![i].reply = "recording"]
               ELSE /\ rc' = [rc EXCEPT ![i].pc = "disconnect"]
                    /\ UNCHANGED <<worker_future, wk, SESSIONS>>
            /\ UNCHANGED <<stopped_accepting, keys, buffers, age, over, open_files, files>>
    /\ UNCHANGED <<st, fl, pr, loop, idle_at_now, histVars>>
    /\ ev' = NoEv

\* Lines 454-458: vc.disconnect has returned (or raised, suppressed);
\* stop_session and the reply "Could not start listening".
RecordListenFailed(i) ==
    /\ loop = NoTask
    /\ rc[i].pc = "disconnect"
    /\ connected' = [connected EXCEPT ![rc[i].sink] = FALSE]
    /\ files' = StopSessionFiles(files, open_files)
    /\ open_files' = 0
    /\ rc' = [rc EXCEPT ![i].pc = "done", ![i].reply = "could_not_listen"]
    /\ UNCHANGED <<sinkVars, taskVars, SESSIONS, transcript_path, histVars>>
    /\ ev' = NoEv

\* The voice connection of a sink is lost (the bot is moved out of the
\* channel, the gateway drops): vc.is_connected() is false from now on.
Drop(s) ==
    /\ Exists(s)
    /\ connected[s]
    /\ connected' = [connected EXCEPT ![s] = FALSE]
    /\ UNCHANGED <<rc, sinkVars, taskVars, fileVars, histVars>>
    /\ ev' = NoEv

\* ----------------------------------------------------------------------- time
\* The timers that are running: the scheduler's sleep, join_worker's timeout.
Sleeping(s) == wk[s].pc = "sleep"
Joining(s) == st[s].pc = "join"

\* Every task is waiting, no wait is over, and some task reads the time.
AllWaiting ==
    /\ loop = NoTask
    /\ \E s \in SinkIds : wk[s].pc \in {"sleep", "await"} \/ Joining(s)
    /\ \A s \in SinkIds :
          /\ pr[s].pc = "idle"
          /\ wk[s].pc \in {"none", "sleep", "await", "done", "failed"}
          /\ Sleeping(s) => wk[s].sleep_left > 0
          /\ Joining(s) => ~WorkerFinished(s) /\ st[s].join_left > 0

\* ages are kept up to the idle timeout, times over the cap up to the first
\* value above one tick
MaxAge == IDLE_FLUSH_TENTHS
MaxOver == SLEEP_TENTHS + 1

\* the _worker coroutine is between its start and its end
WorkerAlive(s) == wk[s].pc \notin {"none", "done", "failed"}
Max(a, b) == IF a > b THEN a ELSE b

\* d tenths of a second pass.  asyncio.sleep and the join timeout are over
\* once their time has passed; they may be noticed late.
Elapse(d) ==
    /\ AllWaiting
    /\ age' = [s \in SinkIds |-> [k \in Keys |->
                  IF buffers[s][k] = <<>> THEN age[s][k] ELSE Min(age[s][k] + d, MaxAge)]]
    /\ wk' = [s \in SinkIds |->
                 IF Sleeping(s) THEN [wk[s] EXCEPT !.sleep_left = Max(@ - d, 0)] ELSE wk[s]]
    /\ st' = [s \in SinkIds |->
                 IF Joining(s) THEN [st[s] EXCEPT !.join_left = Max(@ - d, 0)] ELSE st[s]]
    /\ over' = [s \in SinkIds |-> [k \in Keys |->
                   IF Total(buffers[s][k]) >= cap /\ WorkerAlive(s)
                   THEN [all |-> Min(over[s][k].all + d, MaxOver),
                         asleep |-> IF Sleeping(s)
                                    THEN Min(over[s][k].asleep + d, MaxOver)
                                    ELSE over[s][k].asleep]
                   ELSE over[s][k]]]
    /\ ev' = IF <<age', wk', st', over'>> = <<age, wk, st, over>> THEN ev ELSE NoEv
    /\ UNCHANGED <<recVars, running, stopped_accepting, worker_future, keys, buffers, fl, pr,
                   loop, idle_at_now, fileVars, histVars>>

\* The time steps of Spec: time is observed when the idle timeout has passed
\* (the scheduler wakes up from its 0.3 s sleep late), and while a join is
\* waiting when its timeout has passed.
ElapseSteps ==
    IF \E s \in SinkIds : Joining(s) THEN {JOIN_TIMEOUT_TENTHS} ELSE {IDLE_FLUSH_TENTHS}

\* ---------------------------------------------------------------------- Next
Next ==
    \/ \E s \in SinkIds, key \in Keys, n \in BlockLens : WriteCheck(s, key, n)
    \/ \E s \in SinkIds : WriteDropped(s)
    \/ \E s \in SinkIds : WriteCommit(s)
    \/ \E s \in SinkIds : Cleanup(s)
    \/ \E s \in SinkIds : WorkerLoop(s)
    \/ \E s \in SinkIds : WorkerWake(s)
    \/ \E s \in SinkIds : WorkerEval(s)
    \/ \E s \in SinkIds : WorkerFlushSpeaker(s)
    \/ \E s \in SinkIds : WorkerDrainChunk(s)
    \/ \E s \in SinkIds, c \in Ctx, res \in {"error", "empty", "text"}, ok \in BOOLEAN :
          TranscribeReturn(s, c, res, ok)
    \/ \E s \in SinkIds, c \in Ctx, ok \in BOOLEAN : PostReturn(s, c, ok)
    \/ \E s \in SinkIds : StopBegin(s)
    \/ \E s \in SinkIds : StopAccepting(s)
    \/ \E s \in SinkIds : FlushAllNext(s)
    \/ \E s \in SinkIds : StopWorker(s)
    \/ \E s \in SinkIds : JoinReturn(s)
    \/ \E s \in SinkIds : StopSession(s)
    \/ \E d \in ElapseSteps : Elapse(d)

Spec == Init /\ [][Next]_vars

\* ------------------------------------------------------- sessions come and go
\* The bot has joined the guild; nobody has called /record yet.
InitIdle ==
    /\ SESSIONS = 0
    /\ open_files = 0
    /\ files = [p \in SinkIds |-> <<>>]
    /\ transcript_path = [s \in SinkIds |-> 0]
    /\ running = [s \in SinkIds |-> FALSE]
    /\ stopped_accepting = [s \in SinkIds |-> FALSE]
    /\ worker_future = [s \in SinkIds |-> "None"]
    /\ keys = [s \in SinkIds |-> <<>>]
    /\ buffers = [s \in SinkIds |-> [k \in Keys |-> <<>>]]
    /\ age = [s \in SinkIds |-> [k \in Keys |-> 0]]
    /\ idle_at_now = [s \in SinkIds |-> {}]
    /\ wk = [s \in SinkIds |-> IdleWk]
    /\ st = [s \in SinkIds |-> IdleSt]
    /\ fl = [s \in SinkIds |-> [c \in Ctx |-> IdleFl]]
    /\ pr = [s \in SinkIds |-> IdlePr]
    /\ loop = NoTask
    /\ posts = <<>>
    /\ flushes = <<>>
    /\ accepted = <<>>
    /\ ev = NoEv
    /\ over = [s \in SinkIds |-> [k \in Keys |-> NoOver]]
    /\ rc = [i \in RecIds |-> IdleRc]
    /\ connected = [s \in SinkIds |-> FALSE]

\* /record and /stop with the voice transport and the scheduler of every
\* sink they make; nobody speaks.
NextRecord ==
    \/ \E i \in RecIds : RecordBegin(i)
    \/ \E i \in RecIds : RecordStartSession(i)
    \/ \E i \in RecIds, ok \in BOOLEAN, listens \in BOOLEAN : RecordConnected(i, ok, listens)
    \/ \E i \in RecIds : RecordListenFailed(i)
    \/ \E s \in SinkIds : Drop(s)
    \/ \E s \in SinkIds : Cleanup(s)
    \/ \E s \in SinkIds : WorkerLoop(s)
    \/ \E s \in SinkIds : WorkerWake(s)
    \/ \E s \in SinkIds : WorkerEval(s)
    \/ StopNotRecording
    \/ \E s \in SinkIds : StopBegin(s)
    \/ \E s \in SinkIds : StopAccepting(s)
    \/ \E s \in SinkIds : StopWorker(s)
    \/ \E s \in SinkIds : JoinReturn(s)
    \/ \E s \in SinkIds : StopSession(s)
    \/ \E d \in ElapseSteps : Elapse(d)

SpecRecord == InitIdle /\ [][NextRecord]_vars

\* ------------------------------------------------ /record while Recording
\* A Recording session with its producer, scheduler and /stop as in Next,
\* the loss of its voice connection, and /record invocations up to their
\* first await; the producer delivers MaxRecWrites short blocks.
MaxRecWrites == 2
RecBlockLens == {8000}

NextRerecord ==
    \/ \E i \in RecIds : RecordBegin(i)
    \/ \E s \in SinkIds : Drop(s)
    \/ \E s \in SinkIds, key \in Keys, n \in RecBlockLens :
          Len(accepted) < MaxRecWrites /\ WriteCheck(s, key, n)
    \/ \E s \in SinkIds : WriteCommit(s)
    \/ \E s \in SinkIds : Cleanup(s)
    \/ \E s \in SinkIds : WorkerLoop(s)
    \/ \E s \in SinkIds : WorkerWake(s)
    \/ \E s \in SinkIds : WorkerEval(s)
    \/ \E s \in SinkIds : WorkerFlushSpeaker(s)
    \/ \E s \in SinkIds, c \in Ctx, res \in {"error", "empty", "text"}, ok \in BOOLEAN :
          TranscribeReturn(s, c, res, ok)
    \/ \E s \in SinkIds : StopBegin(s)
    \/ \E s \in SinkIds : StopAccepting(s)
    \/ \E s \in SinkIds : FlushAllNext(s)
    \/ \E s \in SinkIds : StopWorker(s)
    \/ \E s \in SinkIds : JoinReturn(s)
    \/ \E s \in SinkIds : StopSession(s)
    \/ \E d \in ElapseSteps : Elapse(d)

SpecRerecord == Init /\ [][NextRerecord]_vars

\* ------------------------------------------------ /record after /stop
\* A Recording session whose producer delivers MaxAgainWrites short
\* blocks, its scheduler and /stop, and one /record invocation with
\* everything it makes.
MaxAgainWrites == 1
AgainRecIds == {1}

NextAgain ==
    \/ \E i \in AgainRecIds : RecordBegin(i)
    \/ \E i \in AgainRecIds : RecordStartSession(i)
    \/ \E i \in AgainRecIds, ok \in BOOLEAN, listens \in BOOLEAN :
          RecordConnected(i, ok, listens)
    \/ \E i \in AgainRecIds : RecordListenFailed(i)
    \/ \E s \in SinkIds, key \in Keys, n \in RecBlockLens :
          Len(accepted) < MaxAgainWrites /\ WriteCheck(s, key, n)
    \/ \E s \in SinkIds : WriteCommit(s)
    \/ \E s \in SinkIds : Cleanup(s)
    \/ \E s \in SinkIds : WorkerLoop(s)
    \/ \E s \in SinkIds : WorkerWake(s)
    \/ \E s \in SinkIds : WorkerEval(s)
    \/ \E s \in SinkIds : WorkerFlushSpeaker(s)
    \/ \E s \in SinkIds, c \in Ctx, res \in {"error", "empty", "text"}, ok \in BOOLEAN :
          TranscribeReturn(s, c, res, ok)
    \/ \E s \in SinkIds : StopBegin(s)
    \/ \E s \in SinkIds : StopAccepting(s)
    \/ \E s \in SinkIds : FlushAllNext(s)
    \/ \E s \in SinkIds : StopWorker(s)
    \/ \E s \in SinkIds : JoinReturn(s)
    \/ \E s \in SinkIds : StopSession(s)
    \/ \E d \in ElapseSteps : Elapse(d)

SpecAgain == Init /\ [][NextAgain]_vars

\* ------------------------------------------------------------------ fairness
\* What the event loop and the threads guarantee: a coroutine that is
\* ready again and again is run (the loop's ready queue is first in, first
\* out), a producer that holds a block stores it, time passes and timers
\* fire.  Commands, frames, the loss of the connection and the library's
\* cleanup need not come, and nothing bounds the recognition call
\* (run_in_executor at lines 266 and 319 is awaited without a timeout).
WorkerStep(s) ==
    WorkerLoop(s) \/ WorkerWake(s) \/ WorkerEval(s) \/ WorkerFlushSpeaker(s)
StopStep(s) ==
    StopAccepting(s) \/ FlushAllNext(s) \/ StopWorker(s) \/ JoinReturn(s) \/ StopSession(s)
LoopFairness ==
    /\ \A s \in SinkIds :
          /\ WF_vars(WriteCommit(s))
          /\ SF_vars(WorkerStep(s))
          /\ SF_vars(StopStep(s))
    /\ WF_vars(\E d \in ElapseSteps : Elapse(d))

\* One Recording session with its producer, scheduler and /stop, the
\* producer delivering MaxLiveWrites short blocks.
MaxLiveWrites == 2

NextLive ==
    \/ \E s \in SinkIds, key \in Keys, n \in RecBlockLens :
          Len(accepted) < MaxLiveWrites /\ WriteCheck(s, key, n)
    \/ \E s \in SinkIds : WriteCommit(s)
    \/ \E s \in SinkIds : Cleanup(s)
    \/ \E s \in SinkIds : WorkerLoop(s)
    \/ \E s \in SinkIds : WorkerWake(s)
    \/ \E s \in SinkIds : WorkerEval(s)
    \/ \E s \in SinkIds : WorkerFlushSpeaker(s)
    \/ \E s \in SinkIds, c \in Ctx, res \in {"error", "empty", "text"}, ok \in BOOLEAN :
          TranscribeReturn(s, c, res, ok)
    \/ \E s \in SinkIds : StopBegin(s)
    \/ \E s \in SinkIds : StopAccepting(s)
    \/ \E s \in SinkIds : FlushAllNext(s)
    \/ \E s \in SinkIds : StopWorker(s)
    \/ \E s \in SinkIds : JoinReturn(s)
    \/ \E s \in SinkIds : StopSession(s)
    \/ \E d \in ElapseSteps : Elapse(d)

SpecLive == Init /\ [][NextLive]_vars /\ LoopFairness

\* the same with a recognition engine that always returns
EngineFairness ==
    \A s \in SinkIds, c \in Ctx :
        SF_vars(\E res \in {"error", "empty", "text"}, ok \in BOOLEAN :
                   TranscribeReturn(s, c, res, ok))

SpecLiveEngine == Init /\ [][NextLive]_vars /\ LoopFairness /\ EngineFairness

\* ------------------------------------------------- the producer, frame by frame
\* The state between vc.listen(sink) (line 452) and start_worker (line 459):
\* the sink is constructed and receives frames, no scheduler yet.
InitListen ==
    /\ SESSIONS = 0
    /\ open_files = 1
    /\ files = [p \in SinkIds |-> IF p = 1 THEN <<Header>> ELSE <<>>]
    /\ transcript_path = [s \in SinkIds |-> IF s = 1 THEN 1 ELSE 0]
    /\ running = [s \in SinkIds |-> s = 1]
    /\ stopped_accepting = [s \in SinkIds |-> FALSE]
    /\ worker_future = [s \in SinkIds |-> "None"]
    /\ keys = [s \in SinkIds |-> <<>>]
    /\ buffers = [s \in SinkIds |-> [k \in Keys |-> <<>>]]
    /\ age = [s \in SinkIds |-> [k \in Keys |-> 0]]
    /\ idle_at_now = [s \in SinkIds |-> {}]
    /\ wk = [s \in SinkIds |-> IdleWk]
    /\ st = [s \in SinkIds |-> IdleSt]
    /\ fl = [s \in SinkIds |-> [c \in Ctx |-> IdleFl]]
    /\ pr = [s \in SinkIds |-> IdlePr]
    /\ loop = NoTask
    /\ posts = <<>>
    /\ flushes = <<>>
    /\ accepted = <<>>
    /\ ev = NoEv
    /\ over = [s \in SinkIds |-> [k \in Keys |-> NoOver]]
    /\ rc = [i \in RecIds |-> IF i = 1 THEN [IdleRc EXCEPT !.pc = "listen", !.sink = 1]
                                       ELSE IdleRc]
    /\ connected = [s \in SinkIds |-> s = 1]

NextWrite ==
    \/ \E s \in SinkIds, key \in Keys, pcm \in Frames : WriteFrame(s, key, pcm)
    \/ \E s \in SinkIds : WriteCommit(s)
    \/ \E s \in SinkIds : Cleanup(s)

SpecWrite == InitListen /\ [][NextWrite]_vars

\* ------------------------------------------------ the scheduler on exact time
\* The earliest moment a running timer is over, d when none is running.
NextDeadline(d) ==
    LET ds == {wk[s].sleep_left : s \in {x \in SinkIds : Sleeping(x)}}
                  \cup {st[s].join_left : s \in {x \in SinkIds : Joining(x)}}
                  \cup {d}
    IN  CHOOSE m \in ds : \A x \in ds : m <= x

\* Time passes up to the next timer: asyncio.sleep(0.3) wakes the scheduler
\* exactly when it is over.
ElapseExact(d) == Elapse(NextDeadline(d))

TickSteps == {SLEEP_TENTHS, IDLE_FLUSH_TENTHS}

\* The producer, the voice transport's cleanup and the scheduler with its
\* flushes, on exact time; no _cmd_stop.
NextTick ==
    \/ \E s \in SinkIds, key \in Keys, n \in BlockLens : WriteCheck(s, key, n)
    \/ \E s \in SinkIds : WriteDropped(s)
    \/ \E s \in SinkIds : WriteCommit(s)
    \/ \E s \in SinkIds : Cleanup(s)
    \/ \E s \in SinkIds : WorkerLoop(s)
    \/ \E s \in SinkIds : WorkerWake(s)
    \/ \E s \in SinkIds : WorkerEval(s)
    \/ \E s \in SinkIds : WorkerFlushSpeaker(s)
    \/ \E s \in SinkIds : WorkerDrainChunk(s)
    \/ \E s \in SinkIds, res \in {"error", "empty", "text"}, ok \in BOOLEAN :
          TranscribeReturn(s, "worker", res, ok)
    \/ \E s \in SinkIds, ok \in BOOLEAN : PostReturn(s, "worker", ok)
    \/ \E d \in TickSteps : ElapseExact(d)

SpecTick == Init /\ [][NextTick]_vars

\* ---------------------------------------------------------- the idle scenario
\* One speaker of the Recording session delivers IdleBlocks blocks of half
\* a second of audio each, the next block at most half a second after the
\* one before, and is silent from then on.  The scheduler runs on exact
\* time; the session is not stopped and the transport keeps the sink.
IdleBlocks == 2
SpeechBlock == SR_OUT \div 2
SpeechGap == (10 * SpeechBlock) \div SR_OUT
Pending == Cardinality({x \in SinkIds : pr[x].pc = "checked"})
Speaking == Len(accepted) > 0 /\ Len(accepted) < IdleBlocks

Speak ==
    /\ Len(accepted) + Pending < IdleBlocks
    /\ WriteCheck(1, "u1", SpeechBlock)

\* time passes up to the next timer, and while the speaker is speaking not
\* beyond the moment the next block is due
ElapseSpeech(d) ==
    /\ Speaking => age[1]["u1"] + NextDeadline(d) <= SpeechGap
    /\ ElapseExact(d)

SpeechSteps == {1, SLEEP_TENTHS}

NextIdle ==
    \/ Speak
    \/ \E s \in SinkIds : WriteCommit(s)
    \/ \E s \in SinkIds : WorkerLoop(s)
    \/ \E s \in SinkIds : WorkerWake(s)
    \/ \E s \in SinkIds : WorkerEval(s)
    \/ \E s \in SinkIds : WorkerFlushSpeaker(s)
    \/ \E s \in SinkIds, res \in {"error", "empty", "text"}, ok \in BOOLEAN :
          TranscribeReturn(s, "worker", res, ok)
    \/ \E d \in SpeechSteps : ElapseSpeech(d)

\* the event loop runs the scheduler when it is ready, the producer stores
\* the block it holds, time passes
IdleFairness ==
    /\ \A s \in SinkIds : WF_vars(WriteCommit(s)) /\ SF_vars(WorkerStep(s))
    /\ WF_vars(\E d \in SpeechSteps : ElapseSpeech(d))

SpecIdle == Init /\ [][NextIdle]_vars /\ IdleFairness

\* --------------------------------------------------------- the chunk scenario
\* One speaker of the Recording session speaks without a pause: every
\* tenth of a second the producer stores a block of a tenth of a second of
\* audio, SteadyBlocks blocks in all, the first at any moment of the
\* scheduler's sleep.  The scheduler runs on exact time and recognition,
\* transcript write and send take no time; the session is not stopped and
\* the transport keeps the sink.  The time since the speaker began is the
\* number of blocks accepted, in tenths of a second.
SteadyBlocks == 60
SteadyBlock == SR_OUT \div 10

\* Lines 197-221 at the end of a tenth of a second: time passes for the
\* scheduler's sleep, and write stores the block of that tenth under the
\* lock and stamps _last_activity.
Steady ==
    /\ loop = NoTask
    /\ Len(accepted) < SteadyBlocks
    /\ Exists(1) /\ ~stopped_accepting[1] /\ ~Locked(1)
    /\ \A s \in SinkIds : pr[s].pc = "idle" /\ \A c \in Ctx : fl[s][c].pc = "idle"
    /\ wk[1].pc \in {"sleep", "done", "failed"}
    /\ Sleeping(1) => wk[1].sleep_left > 0
    /\ wk' = [wk EXCEPT ![1].sleep_left = Max(@ - 1, 0)]
    /\ LET blk == [id |-> Len(accepted) + 1, len |-> SteadyBlock, pcm |-> <<>>]
       IN  /\ keys' = [keys EXCEPT ![1] = IF @ = <<>> THEN <<"u1">> ELSE @]
           /\ buffers' = [buffers EXCEPT ![1]["u1"] = Append(@, blk)]
           /\ accepted' = Append(accepted, [sink |-> 1, key |-> "u1", len |-> SteadyBlock])
    /\ age' = [age EXCEPT ![1]["u1"] = 0]
    /\ over' = OverAfter(buffers')
    /\ ev' = NoEv
    /\ UNCHANGED <<recVars, running, stopped_accepting, worker_future, st, fl, pr, loop,
                   idle_at_now, fileVars, flushes, posts>>

\* a tenth of a second before the speaker begins
Quiet ==
    /\ accepted = <<>>
    /\ ElapseExact(1)

NextSteady ==
    \/ Steady
    \/ Quiet
    \/ \E s \in SinkIds : WorkerLoop(s)
    \/ \E s \in SinkIds : WorkerWake(s)
    \/ \E s \in SinkIds : WorkerEval(s)
    \/ \E s \in SinkIds : WorkerDrainChunk(s)
    \/ \E s \in SinkIds, res \in {"error", "empty", "text"}, ok \in BOOLEAN :
          TranscribeReturn(s, "worker", res, ok)
    \/ \E s \in SinkIds, ok \in BOOLEAN : PostReturn(s, "worker", ok)

SpecSteady == Init /\ [][NextSteady]_vars

\* ------------------------------------------------- the conversions of write
\* The sink of InitListen is offered frames of int16 samples: every stereo
\* pair of the values of Samples, and ramps of 1 to MaxSamples samples.
MaxSamples == 13
MaxConvertWrites == 1
INT16_MIN == -32768
INT16_MAX == 32767
Samples == {INT16_MIN, INT16_MIN + 1, -3, -2, -1, 0, 1, 2, 3, INT16_MAX - 1, INT16_MAX}
Ramp(n) == [i \in 1..n |-> 100 * i - 300]

\* the bytes of int16 samples, little-endian
EncodeInt16(arr) ==
    [i \in 1..(2 * Len(arr)) |->
        IF i % 2 = 1 THEN (arr[(i + 1) \div 2] % 65536) % 256
        ELSE (arr[i \div 2] % 65536) \div 256]

ConvertFrames ==
    {EncodeInt16(<<a, b>>) : a \in Samples, b \in Samples}
        \cup {EncodeInt16(Ramp(n)) : n \in 1..MaxSamples}

NextConvert ==
    \/ \E s \in SinkIds, key \in Keys, pcm \in ConvertFrames :
          Len(accepted) + Pending < MaxConvertWrites /\ WriteFrame(s, key, pcm)
    \/ \E s \in SinkIds : WriteCommit(s)

SpecConvert == InitListen /\ [][NextConvert]_vars

\* ------------------------------------------------------------------ properties
\* The blocks of speaker key of sink s that flushes 1..n drained, in order.
RECURSIVE Drained(_, _, _)
Drained(s, key, n) ==
    IF n = 0 THEN <<>>
    ELSE IF flushes[n].sink = s /\ flushes[n].key = key
    THEN Drained(s, key, n - 1) \o flushes[n].clip
    ELSE Drained(s, key, n - 1)

FinalFlushes(s) ==
    {i \in 1..Len(flushes) : flushes[i].sink = s /\ flushes[i].reason = "final"}

\* the transcript lines written for flush fid, over all files
LinesOf(fs, fid) ==
    Cardinality(UNION {{<<p, i>> : i \in {j \in 1..Len(fs[p]) : fs[p][j] = Line(fid)}} :
                       p \in SinkIds})
PostsOf(ps, fid) == Cardinality({i \in 1..Len(ps) : ps[i] = fid})

\* C1: when stop-session runs on a session in which both speakers hold a
\* non-empty partial buffer, exactly two flushes with reason "final" occur,
\* and once stop-session has completed every speaker queue is empty.
C1_StopDrainsBoth ==
    \A s \in SinkIds :
        (st[s].pc = "done" /\ st[s].held) =>
            /\ Cardinality(FinalFlushes(s)) = 2
            /\ \A k \in Keys : buffers[s][k] = <<>>

\* C2: the stop-accepting latch is one-way, and from the moment it is set no
\* write appends a block to any speaker queue, creates a speaker or updates a
\* last-activity timestamp.
C2_LatchStopsAppends ==
    [][\A s \in SinkIds :
          stopped_accepting[s] =>
              /\ stopped_accepting'[s]
              /\ keys'[s] = keys[s]
              /\ \A k \in Keys :
                    /\ Len(buffers'[s][k]) <= Len(buffers[s][k])
                    /\ age'[s][k] >= age[s][k]]_vars

\* C3: no loss, no duplication: every block a write appended is, for its own
\* speaker, either still queued or in the clip of exactly one flush, once and
\* with its length; so the samples appended are the samples buffered plus the
\* samples drained.
C3_NoLossNoDup ==
    \A s \in SinkIds, k \in Keys :
        LET all == Drained(s, k, Len(flushes)) \o buffers[s][k]
            mine == {i \in 1..Len(accepted) : accepted[i].sink = s /\ accepted[i].key = k}
        IN  /\ Len(all) = Cardinality(mine)
            /\ \A i \in mine :
                  \E j \in 1..Len(all) : all[j].id = i /\ all[j].len = accepted[i].len
            /\ SumLen(all) = SumLen([i \in 1..Len(accepted) |->
                  [len |-> IF i \in mine THEN accepted[i].len ELSE 0]])

\* C3 at work: a chunk flush drained some of a speaker's blocks and left
\* another queued.
C3_Witness ==
    \E i \in 1..Len(flushes) :
        /\ flushes[i].reason = "chunk"
        /\ buffers[flushes[i].sink][flushes[i].key] /= <<>>

\* C4: every block a write appended is eventually drained by some flush once
\* the session is stopped.  When stop has completed, the scheduler has
\* finished and no write is in progress, nothing can drain a block any more,
\* so by then every appended block has to be in the clip of a flush.
C4_StoppedMeansDrained ==
    \A s \in SinkIds :
        (st[s].pc = "done" /\ WorkerFinished(s) /\ pr[s].pc = "idle") =>
            \A i \in 1..Len(accepted) :
                accepted[i].sink = s =>
                    \E f \in 1..Len(flushes) :
                        \E j \in 1..Len(flushes[f].clip) : flushes[f].clip[j].id = i

\* C5: flush_all drains every speaker whose queue is non-empty, whatever its
\* duration and idle time: when it is over, no block accepted before it began
\* is still queued, and a clip below the minimum-to-post is never posted.
C5_FlushAllDrainsAll ==
    \A s \in SinkIds :
        /\ st[s].pc \in {"join", "disconnect", "done"} =>
              \A k \in Keys :
                  \A j \in 1..Len(buffers[s][k]) : buffers[s][k][j].id > st[s].upto
        /\ \A p \in 1..Len(posts) :
              flushes[posts[p]].reason = "final" =>
                  10 * SumLen(flushes[posts[p]].clip) >= 16 * SR_OUT

\* C6: at a tick, for a speaker with a non-empty buffer, in priority: idle
\* for at least the idle timeout, or buffered at least the cap, drains the
\* whole queue with reason idle, else cap (the cap flush fires with idle time
\* 0 too); else buffered at least a chunk starts a chunk drain; else the
\* queue is left as it is in that tick.
C6_DecisionPriority ==
    [][\A s \in SinkIds :
          /\ (wk[s].pc = "sleep" /\ wk'[s].pc = "iter") =>
                /\ wk'[s].keys = keys[s]
                /\ idle_at_now'[s] = {k \in Keys : age[s][k] >= 20}
          /\ (wk[s].pc = "iter" /\ wk[s].keys /= <<>> /\ wk'[s] /= wk[s]) =>
                LET key == Head(wk[s].keys)
                    total == SumLen(buffers[s][key])
                    idle == key \in idle_at_now[s]
                    to == wk'[s]
                IN  /\ buffers' = buffers
                    /\ (total > 0 /\ idle) =>
                          to.pc = "flush_speaker" /\ to.key = key /\ to.reason = "idle"
                    /\ (total >= 6 * 16000 /\ ~idle) =>
                          to.pc = "flush_speaker" /\ to.key = key /\ to.reason = "cap"
                    /\ (total >= 5 * 16000 /\ total < 6 * 16000 /\ ~idle) =>
                          to.pc = "drain_chunk" /\ to.key = key
                    /\ (total < 5 * 16000 /\ ~idle) =>
                          to.pc = "iter" /\ to.keys = Tail(wk[s].keys)
                    /\ total = 0 => to.pc = "iter"
          /\ (wk[s].pc = "flush_speaker" /\ wk'[s].pc = "await") =>
                /\ wk[s].reason \in {"idle", "cap"}
                /\ buffers'[s][wk[s].key] = <<>>
                /\ flushes' = Append(flushes,
                       [sink |-> s, ctx |-> "worker", key |-> wk[s].key,
                        reason |-> wk[s].reason, clip |-> buffers[s][wk[s].key]])]_vars

\* C6 at work: the scheduler drains a speaker for cap whose last block has
\* just arrived (idle time 0).
C6_Witness ==
    \E s \in SinkIds, i \in 1..Len(flushes) :
        /\ wk[s].pc = "await"
        /\ fl[s]["worker"].fid = i
        /\ flushes[i].reason = "cap"
        /\ age[s][flushes[i].key] = 0
        /\ SumLen(flushes[i].clip) >= cap

\* C7: a chunk flush pops whole blocks from the head of the queue, in order,
\* until it has at least a chunk: the clip is the shortest such prefix, so it
\* holds less than a chunk plus its last block, and the rest stays queued.
C7_ChunkPrefix ==
    [][\A s \in SinkIds :
          (wk[s].pc = "drain_chunk" /\ wk'[s].pc = "await") =>
              LET f == flushes'[Len(flushes')]
                  clip == f.clip
                  n == Len(clip)
              IN  /\ Len(flushes') = Len(flushes) + 1
                  /\ f.sink = s /\ f.key = wk[s].key /\ f.reason = "chunk"
                  /\ buffers[s][f.key] = clip \o buffers'[s][f.key]
                  /\ n >= 1
                  /\ SumLen(clip) >= 5 * 16000
                  /\ SumLen(SubSeq(clip, 1, n - 1)) < 5 * 16000
                  /\ SumLen(clip) < 5 * 16000 + clip[n].len]_vars

\* C7 at work: a chunk flush took more than a chunk, because its last block
\* crossed the threshold.
C7_Witness ==
    \E i \in 1..Len(flushes) :
        /\ flushes[i].reason = "chunk"
        /\ SumLen(flushes[i].clip) > chunk
        /\ Len(flushes[i].clip) >= 2

Returned == {"error", "empty", "logged", "append_failed"}

\* C8: every flush whose transcription returns non-empty text makes exactly
\* one transcript line, and a notification if and only if its clip is at
\* least the minimum-to-post long; empty text makes neither.
C8_LineAndPost ==
    [][(ev' /= ev /\ ev'.what \in Returned) =>
          LET fid == ev'.fid
              size == SumLen(flushes[fid].clip)
          IN  IF ev'.what \in {"logged", "append_failed"}
              THEN /\ LinesOf(files', fid) = 1 /\ LinesOf(files, fid) = 0
                   /\ PostsOf(posts', fid) = (IF 10 * size >= 16 * SR_OUT THEN 1 ELSE 0)
              ELSE files' = files /\ posts' = posts]_vars

\* What holds of C8: every flush whose transcription returns non-empty text
\* and whose transcript append returns makes exactly one transcript line, and
\* a notification if and only if its clip is at least the minimum-to-post
\* long; empty text, a recognition error and a failed append make neither.
C8_LineAndPostUnlessAppendFails ==
    [][(ev' /= ev /\ ev'.what \in Returned) =>
          LET fid == ev'.fid
              size == SumLen(flushes[fid].clip)
          IN  IF ev'.what = "logged"
              THEN /\ LinesOf(files', fid) = 1 /\ LinesOf(files, fid) = 0
                   /\ Len(files'[transcript_path[flushes[fid].sink]])
                          = Len(files[transcript_path[flushes[fid].sink]]) + 1
                   /\ PostsOf(posts', fid) = (IF 10 * size >= 16 * SR_OUT THEN 1 ELSE 0)
                   /\ PostsOf(posts, fid) = 0
                   /\ Len(posts') = Len(posts) + PostsOf(posts', fid)
              ELSE files' = files /\ posts' = posts]_vars

\* a clip shorter than the minimum-to-post was logged and not posted, after
\* a longer clip was logged and posted
C8_Witness ==
    /\ ev.what = "logged"
    /\ 10 * SumLen(flushes[ev.fid].clip) < 16 * SR_OUT
    /\ LinesOf(files, ev.fid) = 1
    /\ PostsOf(posts, ev.fid) = 0
    /\ posts /= <<>>

Failures == {"error", "append_failed", "send_failed"}

\* C9: a failure while flushing one speaker (recognition error, transcript
\* append error, notification error) is contained: the scheduler goes on
\* with the other speakers of its pass, and flush_all with the other
\* speakers of its snapshot.
C9_ErrorsContained ==
    [][(ev' /= ev /\ ev'.what \in Failures) =>
          LET f == flushes[ev'.fid]
          IN  IF f.ctx = "worker"
              THEN wk'[f.sink].pc = "iter" /\ wk'[f.sink].keys = wk[f.sink].keys
              ELSE st'[f.sink].pc = "flush_all" /\ st'[f.sink].keys = st[f.sink].keys]_vars

\* C10: a slow recognition call never stalls cap enforcement for other
\* speakers: while a transcription is in flight no speaker's buffer has been
\* at or above the cap for longer than one tick interval.
C10_CapNotStalled ==
    \A s \in SinkIds, k \in Keys :
        wk[s].pc = "await" => over[s][k].all <= SLEEP_TENTHS

\* C10 amended: the scheduler awaits each recognition call and each send
\* inside its pass and evaluates no speaker until it returns; a buffer stays
\* at or above the cap for at most one tick interval of the scheduler's
\* sleep, on top of the time the scheduler spends awaiting.
C10_CapWithinOneSleep ==
    \A s \in SinkIds, k \in Keys : over[s][k].asleep <= SLEEP_TENTHS

\* C10 at work: the scheduler drains a speaker for cap after awaiting another
\* speaker's flush, when the buffer's last block is older than the idle
\* timeout: it sat at the cap while the recognition was in flight.
C10_Witness ==
    \E s \in SinkIds, i, j \in 1..Len(flushes) :
        /\ j < i
        /\ flushes[j].sink = s /\ flushes[i].sink = s
        /\ flushes[j].ctx = "worker"
        /\ flushes[j].key /= flushes[i].key
        /\ flushes[i].reason = "cap"
        /\ fl[s]["worker"].fid = i
        /\ age[s][flushes[i].key] >= IDLE_FLUSH_TENTHS

\* C11: when the recognition call raises for a clip, nothing is appended to
\* the transcript and nothing is posted, the drained blocks are not put back
\* in any queue and no new recognition is submitted for them, and the
\* coroutine that flushed goes on with its remaining speakers.
C11_EngineErrorIsNoOutput ==
    [][(ev' /= ev /\ ev'.what = "error") =>
        LET f == flushes[ev'.fid] IN
        /\ files' = files /\ open_files' = open_files /\ posts' = posts
        /\ buffers' = buffers /\ keys' = keys
        /\ flushes' = flushes
        /\ fl'[f.sink][f.ctx] = IdleFl
        /\ \A k \in Keys : \A j \in 1..Len(buffers'[f.sink][k]) :
              \A i \in 1..Len(f.clip) : buffers'[f.sink][k][j].id /= f.clip[i].id
        /\ f.ctx = "worker" =>
              /\ wk'[f.sink].pc = "iter"
              /\ wk'[f.sink].keys = wk[f.sink].keys
              /\ loop' = <<f.sink, "worker">>
        /\ f.ctx = "stop" =>
              /\ st'[f.sink].pc = "flush_all"
              /\ st'[f.sink].keys = st[f.sink].keys
              /\ wk' = wk
    ]_vars

\* a scheduler's flush has just failed in the engine with another speaker
\* still to evaluate in the same pass
C11_Witness ==
    /\ ev.what = "error"
    /\ flushes[ev.fid].ctx = "worker"
    /\ wk[flushes[ev.fid].sink].pc = "iter"
    /\ wk[flushes[ev.fid].sink].keys /= <<>>
    /\ files[1] = <<Header>>
    /\ posts = <<>>

\* C12: when the send of an utterance to the notification channel fails, the
\* utterance's line is in the transcript already and no step ever removes a
\* transcript line; the send is not repeated, and the coroutine that flushed
\* goes on with its remaining speakers as after a send that succeeded.
C12_PostFailureKeepsLine ==
    [][/\ \A p \in SinkIds : \A j \in 1..Len(files[p]) :
             Len(files'[p]) >= j /\ files'[p][j] = files[p][j]
       /\ (ev' /= ev /\ ev'.what = "send_failed") =>
            LET f == flushes[ev'.fid] IN
            /\ LinesOf(files, ev'.fid) = 1
            /\ files' = files
            /\ posts' = posts /\ PostsOf(posts, ev'.fid) = 1
            /\ flushes' = flushes
            /\ fl'[f.sink][f.ctx] = IdleFl
            /\ f.ctx = "worker" =>
                  /\ wk'[f.sink].pc = "iter"
                  /\ wk'[f.sink].keys = wk[f.sink].keys
                  /\ loop' = <<f.sink, "worker">>
            /\ f.ctx = "stop" =>
                  /\ st'[f.sink].pc = "flush_all"
                  /\ st'[f.sink].keys = st[f.sink].keys
    ]_vars

\* a scheduler's send has just failed: the line is in the transcript and
\* the scheduler is back in its pass
C12_Witness ==
    /\ ev.what = "send_failed"
    /\ flushes[ev.fid].ctx = "worker"
    /\ wk[flushes[ev.fid].sink].pc = "iter"
    /\ LinesOf(files, ev.fid) = 1

\* C13: write never lets an exception out: a frame whose byte length is odd
\* is dropped with the speaker queues, the speakers known and their
\* last-activity times unchanged and the producer back from the call, and a
\* well-formed frame offered next to a sink that still accepts is taken.
C13_WriteNeverRaises ==
    [][/\ \A s \in SinkIds : pr'[s].pc \in {"idle", "checked"}
       /\ (ev' /= ev /\ ev'.what = "write_error") =>
            /\ buffers' = buffers /\ keys' = keys /\ age' = age
            /\ accepted' = accepted
            /\ pr' = pr
            /\ \A s \in SinkIds :
                  (Exists(s) /\ ~stopped_accepting[s] /\ pr[s].pc = "idle"
                     /\ Len(accepted)
                          + Cardinality({x \in SinkIds : pr[x].pc = "checked"}) < MaxWrites)
                  => (ENABLED WriteFrame(s, "u1", <<253, 255, 2, 0>>))'
    ]_vars

\* a frame of three bytes has just been dropped by a sink that holds audio
\* of an earlier frame and still accepts
C13_Witness ==
    /\ ev.what = "write_error"
    /\ buffers[1]["u1"] /= <<>>
    /\ ~stopped_accepting[1]
    /\ Len(accepted) < MaxWrites

\* the guild is Recording: a session is registered and its vc is connected
Recording == SESSIONS /= 0 /\ connected[SESSIONS]

\* C14: a /record for a guild that is Recording replies "Already recording"
\* and creates nothing: the registry entry, the sink's queues, speakers and
\* flags, the transcript files and the open file are as before, no sink
\* comes into existence, and a scheduler that is alive is left as it is.
C14_RecordIsIdempotent ==
    [][(rc' /= rc /\ Recording) =>
        /\ \A i \in RecIds :
              rc'[i] /= rc[i] => rc'[i].pc = "done" /\ rc'[i].reply = "already"
        /\ SESSIONS' = SESSIONS
        /\ connected' = connected
        /\ buffers' = buffers /\ keys' = keys /\ age' = age
        /\ running' = running /\ stopped_accepting' = stopped_accepting
        /\ transcript_path' = transcript_path
        /\ open_files' = open_files /\ files' = files
        /\ \A s \in SinkIds : WorkerAlive(s) => wk'[s] = wk[s] /\ worker_future'[s] = worker_future[s]
    ]_vars

\* /record has just answered "Already recording" for a session whose sink
\* holds audio and whose scheduler is alive
C14_Witness ==
    /\ \E i \in RecIds : rc[i].pc = "done" /\ rc[i].reply = "already"
    /\ ev = NoEv
    /\ SESSIONS = 1 /\ connected[1]
    /\ buffers[1]["u1"] /= <<>>
    /\ wk[1].pc = "sleep"
    /\ \A i \in RecIds : rc[i].pc /= "none"

\* C15: a /record for a guild that is Recording while the session's
\* scheduler has stopped (it returned after its run flag was cleared, or an
\* exception ended it) leaves the scheduler started again.
C15_RecordRestartsScheduler ==
    [][(rc' /= rc /\ Recording /\ WorkerFinished(SESSIONS)) =>
            WorkerAlive(SESSIONS)' /\ running'[SESSIONS]
    ]_vars

\* a sink whose scheduler loop is running, and a sink that takes the frames
\* of a connected transport it listens to
SchedulerRunning(s) == WorkerAlive(s) /\ running[s]
Accepting(s) ==
    Exists(s) /\ connected[s] /\ wk[s].pc /= "none" /\ ~stopped_accepting[s]

\* C16: whatever /record and /stop calls were made, and wherever they are
\* suspended, at most one sink of the guild has a running scheduler loop or
\* accepts frames.
C16_AtMostOneSession ==
    Cardinality({s \in SinkIds : SchedulerRunning(s) \/ Accepting(s)}) <= 1

AttachFailures == {"could_not_join", "could_not_listen"}

C18_StopOrdering ==
    [][\A s \in SinkIds :
        /\ st'[s].pc \in {"flush_all", "await", "join", "disconnect", "done"}
              => stopped_accepting'[s]
        /\ (Len(flushes') > Len(flushes) /\ flushes'[Len(flushes')].reason = "final"
               /\ flushes'[Len(flushes')].sink = s) => stopped_accepting[s]
        /\ (st[s].pc \in {"defer", "flush_all", "await"}
               /\ st'[s].pc \in {"join", "disconnect", "done"}) =>
              /\ st[s].pc = "flush_all" /\ st[s].keys = <<>>
              /\ fl[s]["stop"] = IdleFl
              /\ ~running'[s]
        /\ (worker_future[s] = "set" /\ worker_future'[s] = "None") =>
              st[s].pc = "flush_all" /\ st'[s].pc = "join"
        /\ (st[s].pc = "join" /\ st'[s].pc /= "join") =>
              /\ st'[s].pc = "disconnect"
              /\ WorkerFinished(s) \/ st[s].join_left = 0
        /\ (st[s].pc /= "done" /\ st'[s].pc = "done") => st[s].pc = "disconnect"
        /\ (connected[s] /\ ~connected'[s]) => st[s].pc = "disconnect"
        /\ (Exists(s) /\ files'[transcript_path[s]] /= files[transcript_path[s]]
               /\ files'[transcript_path[s]][Len(files'[transcript_path[s]])] = Footer)
              => st[s].pc = "disconnect" /\ st'[s].pc = "done"
    ]_vars

\* the join timeout has run out with the scheduler still inside a
\* recognition call, after a final flush; the disconnect has begun
C18_Witness ==
    /\ st[1].pc = "disconnect"
    /\ ~WorkerFinished(1)
    /\ wk[1].pc = "await"
    /\ FinalFlushes(1) /= {}
    /\ ~running[1]

\* C19: every _cmd_stop that popped a session goes on to its end: it
\* disconnects and writes the transcript's end line.
C19_StopCompletes ==
    \A s \in SinkIds : (st[s].pc = "defer") ~> (st[s].pc = "done")

\* C20 as stated: once the running flag of a sink is cleared, its scheduler
\* begins no flush.
C20_NoFlushAfterSignal ==
    [][(Len(flushes') > Len(flushes) /\ flushes'[Len(flushes')].ctx = "worker")
          => running[flushes'[Len(flushes')].sink]
    ]_vars

\* C20: once the running flag of a sink is cleared, its scheduler starts no
\* further sleep: it finishes the sleep it is in and the pass that follows,
\* in which it may begin flushes, and returns at the next test of the flag;
\* a flush it is awaiting ends only by the return of its recognition call or
\* of its send, and a text returned and appended is in the transcript; and
\* with recognition calls that return, the scheduler does finish.
C20_SchedulerTermination ==
    /\ [][\A s \in SinkIds :
            /\ (~running[s] /\ wk[s].pc /= "sleep") => wk'[s].pc /= "sleep"
            /\ (wk[s].pc = "await" /\ wk'[s].pc /= "await") =>
                  /\ ev' /= ev
                  /\ ev'.fid = fl[s]["worker"].fid
                  /\ ev'.what \in Returned \cup {"sent", "send_failed"}
                  /\ ev'.what = "logged" => LinesOf(files', ev'.fid) = 1
            /\ (wk[s].pc = "await" /\ wk'[s].pc = "await") =>
                  /\ fl'[s]["worker"].fid = fl[s]["worker"].fid
                  /\ flushes'[fl[s]["worker"].fid] = flushes[fl[s]["worker"].fid]
       ]_vars
    /\ \A s \in SinkIds : (~running[s] /\ WorkerAlive(s)) ~> WorkerFinished(s)

\* the flag was cleared while the scheduler awaited a recognition call; the
\* call has returned its text, the line is in the transcript, and the
\* scheduler is back in its pass
C20_Witness ==
    /\ ~running[1]
    /\ ev.what = "logged"
    /\ flushes[ev.fid].ctx = "worker"
    /\ wk[1].pc = "iter"
    /\ LinesOf(files, ev.fid) = 1

\* the transcript of path p was closed by a stop_session: it has its end line
Closed(p) == p /= 0 /\ \E j \in 1..Len(files[p]) : files[p][j] = Footer

\* the flushes whose line is in the file of path p
LinesIn(p) == {files[p][j].flush : j \in {i \in 1..Len(files[p]) : files[p][i].kind = "line"}}

\* C21 (as stated): once /stop of a session has returned and closed its
\* transcript, the registry no longer holds that session, and in the
\* session a later /record registers nothing of the earlier session is
\* visible: the new sink has empty queues, no names, its latch clear and
\* its run flag set, a scheduler task of its own, and a transcript of its
\* own that holds no utterance drained from the earlier session's buffers.
C21_NothingCarriedOver ==
    \A s \in SinkIds :
        (st[s].pc = "done" /\ Closed(transcript_path[s])) =>
            /\ SESSIONS /= s
            /\ \A n \in SinkIds \ {s} :
                  SESSIONS = n =>
                      /\ transcript_path[n] \notin {0, transcript_path[s]}
                      /\ Head(files[transcript_path[n]]) = Header
                      /\ worker_future[n] = "set" => wk[n].pc /= "none"
                      /\ \A k \in Keys :
                            \A j \in 1..Len(buffers[n][k]) :
                                accepted[buffers[n][k][j].id].sink = n
                      /\ \A f \in LinesIn(transcript_path[n]) : flushes[f].sink = n

\* C22: a /stop for a guild with no registered session answers "Not
\* recording" and changes nothing: the registry and the open-transcript
\* map, every file, every sink, task, connection and pending command stay
\* as they were; no flush is submitted and nothing is posted.
C22_StopWithoutSessionIsNoOp ==
    [][ev'.what = "not_recording" =>
          /\ SESSIONS = 0
          /\ UNCHANGED <<SESSIONS, open_files, files, transcript_path>>
          /\ UNCHANGED <<flushes, posts, accepted>>
          /\ UNCHANGED <<sinkVars, taskVars, recVars>>]_vars

\* the reply was given while a /record of the guild was between
\* start_session and its registration, its transcript open, and while the
\* scheduler of a stopped session was still alive
C22_Witness ==
    /\ ev.what = "not_recording"
    /\ open_files /= 0
    /\ \E i \in RecIds : rc[i].pc = "connect"
    /\ \E s \in SinkIds : st[s].pc = "join" /\ WorkerAlive(s)

\* the ids of a sequence of blocks
IdsOf(q) == [j \in 1..Len(q) |-> q[j].id]

\* the blocks accepted for speaker k of sink s among the first n, in
\* arrival order
RECURSIVE ArrivedIds(_, _, _)
ArrivedIds(s, k, n) ==
    IF n = 0 THEN <<>>
    ELSE IF accepted[n].sink = s /\ accepted[n].key = k
    THEN Append(ArrivedIds(s, k, n - 1), n)
    ELSE ArrivedIds(s, k, n - 1)

\* C23: per-speaker FIFO.  In every step a speaker's queue stays as it is,
\* or gets the block just accepted at its tail, or loses a non-empty
\* prefix at its head, which is the clip of the flush submitted in that
\* step; so the buffered total decreases only by a flush.  And the clips
\* drained for the speaker, one after the other, followed by what is still
\* queued, are the speaker's accepted blocks in arrival order.
C23_PerSpeakerFifo ==
    [][\A s \in SinkIds, k \in Keys :
          LET q == buffers[s][k]
              r == buffers'[s][k]
          IN  /\ \/ r = q
                 \/ /\ Len(r) = Len(q) + 1
                    /\ SubSeq(r, 1, Len(q)) = q
                    /\ Len(accepted') = Len(accepted) + 1
                    /\ r[Len(r)].id = Len(accepted')
                    /\ accepted'[Len(accepted')] = [sink |-> s, key |-> k, len |-> r[Len(r)].len]
                 \/ /\ Len(r) < Len(q)
                    /\ Len(flushes') = Len(flushes) + 1
                    /\ flushes'[Len(flushes')].sink = s
                    /\ flushes'[Len(flushes')].key = k
                    /\ q = flushes'[Len(flushes')].clip \o r
              /\ Total(r) < Total(q) => Len(flushes') = Len(flushes) + 1
              /\ IdsOf(Drained(s, k, Len(flushes))' \o r) = ArrivedIds(s, k, Len(accepted))'
      ]_vars

\* C23 at work: two clips were drained for a speaker, and a block of
\* another speaker arrived between the speaker's blocks.
C23_Witness ==
    \E i, j \in 1..Len(flushes) :
        /\ i < j
        /\ flushes[i].sink = flushes[j].sink
        /\ flushes[i].key = flushes[j].key
        /\ \E a \in 1..Len(accepted) :
              /\ accepted[a].key /= flushes[i].key
              /\ a > flushes[i].clip[1].id
              /\ a < flushes[j].clip[Len(flushes[j].clip)].id

C25_IdleScenario ==
    /\ [][/\ \A s \in SinkIds : wk'[s].pc /= "drain_chunk"
          /\ Len(flushes') <= 1
          /\ Len(flushes') = Len(flushes) + 1 =>
                LET f == flushes'[Len(flushes')]
                IN  /\ f.reason = "idle"
                    /\ f.sink = 1 /\ f.key = "u1"
                    /\ age[f.sink][f.key] >= IDLE_FLUSH_TENTHS
                    /\ Len(accepted) = IdleBlocks
                    /\ IdsOf(f.clip) = [j \in 1..IdleBlocks |-> j]
                    /\ SumLen(f.clip) = IdleBlocks * SpeechBlock
                    /\ buffers'[f.sink][f.key] = <<>>]_vars
    /\ (Len(accepted) = IdleBlocks) ~> (Len(flushes) = 1)

\* C25 at work: the one second of audio was drained by an idle flush, its
\* recognition has returned, and the scheduler is asleep again with nothing
\* queued.
C25_Witness ==
    /\ Len(flushes) = 1
    /\ flushes[1].reason = "idle"
    /\ SumLen(flushes[1].clip) = SR_OUT
    /\ fl[1]["worker"].pc = "idle"
    /\ wk[1].pc = "sleep" /\ wk[1].sleep_left = 0
    /\ buffers[1]["u1"] = <<>>

\* C26: the chunk scenario.  The scheduler submits no flush while fewer
\* than 80,000 samples are buffered and never an idle or cap flush; its
\* first flush is a chunk flush, submitted at least 5.0 s and less than one
\* tick interval more after the speaker began, which drains 80,000 samples
\* and leaves less than one tick interval's worth of samples queued; from
\* then to the end of the 6th second it is the only flush.
C26_ChunkScenario ==
    [][/\ \A s \in SinkIds : wk'[s].pc /= "flush_speaker"
       /\ Len(accepted') >= 10 * CHUNK_SECONDS + SLEEP_TENTHS => Len(flushes') = 1
       /\ Len(flushes') <= 1
       /\ Len(flushes') = Len(flushes) + 1 =>
             LET f == flushes'[Len(flushes')]
                 since == Len(accepted)
             IN  /\ f.reason = "chunk"
                 /\ f.sink = 1 /\ f.key = "u1"
                 /\ Total(buffers[1]["u1"]) >= chunk
                 /\ since >= 10 * CHUNK_SECONDS
                 /\ since < 10 * CHUNK_SECONDS + SLEEP_TENTHS
                 /\ SumLen(f.clip) = chunk
                 /\ Total(buffers'[1]["u1"]) < SLEEP_TENTHS * SteadyBlock]_vars

\* C26 at work: six seconds after the speaker began one chunk flush has
\* been submitted; it took the audio of the first five seconds, and the
\* audio of the sixth second is queued.
C26_Witness ==
    /\ Len(accepted) = 10 * (CHUNK_SECONDS + 1)
    /\ Len(flushes) = 1
    /\ flushes[1].reason = "chunk"
    /\ flushes[1].clip[Len(flushes[1].clip)].id = 10 * CHUNK_SECONDS
    /\ buffers[1]["u1"][1].id = 10 * CHUNK_SECONDS + 1
    /\ Len(buffers[1]["u1"]) = 10
    /\ wk[1].pc = "sleep"

\* the samples write decoded from the frame it holds
Decoded(s) == PcmBytesToInt16Array(pr[s].data)
\* write holds a frame with an even number of samples, taken as stereo
HoldsStereo(s) == pr[s].pc = "checked" /\ Len(Decoded(s)) % 2 = 0
\* write holds a frame with an odd number of samples
HoldsOdd(s) == pr[s].pc = "checked" /\ Len(Decoded(s)) % 2 = 1

\* C27: the downmix of a stereo pair [a, b] is floor((a + b) / 2): the
\* greatest integer m with 2 * m <= a + b; the sum is exact in the wider
\* type and m is an int16 value, for every pair offered.
C27_DownmixIsFloorOfMean ==
    \A s \in SinkIds :
        HoldsStereo(s) =>
            /\ Len(pr[s].arr) * 2 = Len(Decoded(s))
            /\ \A i \in 1..Len(pr[s].arr) :
                  LET a == Decoded(s)[2 * i - 1]
                      b == Decoded(s)[2 * i]
                      m == pr[s].arr[i]
                  IN  /\ InInt32(a + b)
                      /\ 2 * m <= a + b
                      /\ a + b < 2 * m + 2
                      /\ m >= INT16_MIN /\ m <= INT16_MAX

\* C27 at work: the pairs of the two greatest and of the two least int16
\* values are downmixed to those values.
C27_Witness ==
    \E s \in SinkIds :
        /\ HoldsStereo(s)
        /\ \/ Decoded(s) = <<INT16_MAX, INT16_MAX>> /\ pr[s].arr = <<INT16_MAX>>
           \/ Decoded(s) = <<INT16_MIN, INT16_MIN>> /\ pr[s].arr = <<INT16_MIN>>

\* the quotient of x by 2 rounded toward zero
TruncHalf(x) == IF x >= 0 THEN x \div 2 ELSE -((-x) \div 2)

\* C28 (as stated): the downmix of a stereo pair [a, b] is (a + b) / 2
\* rounded toward zero, also when a + b is negative and odd.
C28_DownmixTruncates ==
    \A s \in SinkIds :
        HoldsStereo(s) =>
            \A i \in 1..Len(pr[s].arr) :
                pr[s].arr[i] = TruncHalf(Decoded(s)[2 * i - 1] + Decoded(s)[2 * i])

\* C28 amended: the downmix rounds toward minus infinity: it is
\* (a + b) / 2 rounded toward zero when a + b is even or not negative, and
\* one less than that when a + b is negative and odd.
C28_DownmixRoundsDown ==
    \A s \in SinkIds :
        HoldsStereo(s) =>
            \A i \in 1..Len(pr[s].arr) :
                LET sum == Decoded(s)[2 * i - 1] + Decoded(s)[2 * i]
                IN  pr[s].arr[i] =
                        IF sum < 0 /\ sum % 2 = 1 THEN TruncHalf(sum) - 1 ELSE TruncHalf(sum)

\* C28 at work: the pair (-3, 2), whose sum is -1, is downmixed to -1.
C28_Witness ==
    \E s \in SinkIds :
        /\ HoldsStereo(s)
        /\ Decoded(s) = <<-3, 2>>
        /\ pr[s].arr = <<-1>>

\* C29: the decimation by 3 of N samples has ceil(N / 3) samples, the i-th
\* of them (counted from 0) the source sample of index 3 * i; of no sample
\* it has none.
C29_DecimationKeepsEveryThird ==
    /\ Resample48kTo16k(<<>>) = <<>>
    /\ \A s \in SinkIds :
          pr[s].pc = "checked" =>
              LET mono == pr[s].arr
                  out == pr[s].pcm
              IN  /\ 3 * Len(out) >= Len(mono)
                  /\ 3 * Len(out) < Len(mono) + 3
                  /\ pr[s].len = Len(out)
                  /\ \A i \in 0..(Len(out) - 1) : out[i + 1] = mono[3 * i + 1]

\* C29 at work: seven samples are decimated to three, the last of them the
\* seventh.
C29_Witness ==
    \E s \in SinkIds :
        /\ pr[s].pc = "checked"
        /\ Len(pr[s].arr) = 7
        /\ pr[s].pcm = <<pr[s].arr[1], pr[s].arr[4], pr[s].arr[7]>>

\* the samples of the first channel of interleaved samples
FirstChannel(x) == [i \in 1..((Len(x) + 1) \div 2) |-> x[2 * i - 1]]

\* C30 (as stated): of a frame with an even number of samples write keeps
\* one mono sample per stereo pair; and of a frame with an odd number of
\* samples, whose channel count is ambiguous, it keeps the first channel
\* only, so that the block stored is the decimation of the first channel.
C30_ChannelHandling ==
    \A s \in SinkIds :
        /\ HoldsStereo(s) => Len(pr[s].arr) * 2 = Len(Decoded(s))
        /\ HoldsOdd(s) =>
              /\ pr[s].arr = FirstChannel(Decoded(s))
              /\ pr[s].pcm = Resample48kTo16k(FirstChannel(Decoded(s)))

\* the recognition calls of sink s that are in flight
InFlight(s) == {c \in Ctx : fl[s][c].pc = "transcribing"}

\* C31 (as stated): at any time at most one recognition call of a session
\* is in flight, the scheduler's flushes and those of flush_all during
\* /stop included; so in every transcript the lines of a speaker stand in
\* the order in which their clips were drained.
C31_OneRecognitionInFlight ==
    /\ \A s \in SinkIds : Cardinality(InFlight(s)) <= 1
    /\ \A p \in SinkIds :
          \A i, j \in 1..Len(files[p]) :
              (/\ i < j
               /\ files[p][i].kind = "line" /\ files[p][j].kind = "line"
               /\ flushes[files[p][i].flush].sink = flushes[files[p][j].flush].sink
               /\ flushes[files[p][i].flush].key = flushes[files[p][j].flush].key)
              => files[p][i].flush < files[p][j].flush

\* a /record creates its transcript in this step
StartsSession == \E i \in RecIds : rc[i].pc = "defer" /\ rc'[i].pc = "connect"

\* C32 (as stated): once stop_session has written the end line of a
\* transcript and removed the guild from the open-file map, no line is
\* appended to that file, and the guild has no open file again before the
\* next /record creates one - also when join_worker timed out and a flush
\* of the stopped session's scheduler completes afterwards.
C32_ClosedStaysClosed ==
    [][/\ \A p \in SinkIds : Closed(p) => files'[p] = files[p]
       /\ (open_files = 0 /\ \E s \in SinkIds : st[s].pc = "done")
             => (open_files' = 0 \/ StartsSession)]_vars

\* C33 (as stated): every utterance of a session is appended only to the
\* transcript its own /record created, and /stop finalizes that same
\* file: its stop_session writes the end line to the transcript of the
\* session it stops - also when a /record of the guild runs while the stop
\* sequence is suspended.
C33_TranscriptIsolation ==
    [][/\ \A p \in SinkIds :
             \A f \in LinesIn(p)' : transcript_path[flushes[f].sink] = p
       /\ \A s \in SinkIds :
             (st[s].pc = "disconnect" /\ st'[s].pc = "done") =>
                 files'[transcript_path[s]] = Append(files[transcript_path[s]], Footer)
      ]_vars

====
